---- MODULE Spec2Model ----
(***************************************************************************)
(* Transaction validation, gas accounting, block assembly and the tx pool  *)
(* facade of doslink, modelled from the Go sources.                        *)
(***************************************************************************)
EXTENDS Integers, Sequences, FiniteSets, TLC

VARIABLES
    txd,        \* the wire transaction (types.TxData) handed to ValidateTx
    blk,        \* the block context of that call (version, height, first tx?)
    support,    \* config.SupportBalanceInStateDB
    vres,       \* result of the last validation.ValidateTx call on txd
    pool,       \* TxPool.pool: tx -> TxDesc (Added, Fee, StatusFail)
    errCache,   \* TxPool.errCache: tx -> the error of a recent rejection
    now,        \* time.Now().Unix()
    evicted,    \* the txs RemoveTransaction has evicted so far
    lastCall,   \* the last FinalizeTx / RemoveTransaction call and its outcome
    calls,      \* number of calls made on the pool facade
    mining,     \* NewBlockTemplate: its locals while it runs and its block
    cand,       \* the block handed to ValidateBlock
    verdict,    \* ValidateBlock: its locals while it runs and its result
    calc,       \* a BlockSubsidy / createCoinbaseTx call and what it returned
    bestNode,   \* Chain.bestNode
    mainChain,  \* the tip of the main chain in Chain.index
    mu,         \* the goroutine holding Chain.cond.L, if any
    procs       \* the goroutines calling into the Chain, and where they are

txVars == <<txd, blk, vres>>
poolVars == <<pool, errCache, now, evicted, lastCall, calls>>
blockVars == <<cand, verdict>>
chainVars == <<bestNode, mainChain, mu, procs>>
vars == <<txd, blk, support, vres, pool, errCache, now, evicted, lastCall, calls,
          mining, cand, verdict, calc, bestNode, mainChain, mu, procs>>

----------------------------------------------------------------------------
(* consensus constants *)

MaxBlockGas == 10000000
VMGasRate == 200
StorageGasRate == 1
MaxGasAmount == 5000000
DefaultGasCredit == 30000
baseSubsidy == 750000000
PayToWitnessScriptHashDataSize == 20
CoinbaseArbitrarySizeLimit == 128

NativeAssetID == "native"
\* bc.AssetID{}: the all-zero asset id carried by creation/call/contract sources
ZeroAssetID == "zero"

----------------------------------------------------------------------------
(* uint64 values, as four 16-bit limbs with the most significant first      *)

LimbBase == 2 ^ 16

\* uint64(n) for an n of at most 31 bits
Uint64(n) == <<0, 0, n \div LimbBase, n % LimbBase>>

FitsInt(u) == u[1] = 0 /\ u[2] = 0 /\ u[3] < 2 ^ 15

\* the value of a u that FitsInt
ToInt(u) == u[3] * LimbBase + u[4]

\* ^u
Not64(u) == [i \in 1..4 |-> LimbBase - 1 - u[i]]

\* u < v
Less64(u, v) ==
    \E i \in 1..4 : u[i] < v[i] /\ \A j \in 1..(i - 1) : u[j] = v[j]

\* u + v, wrapping at 2^64
Add64(u, v) ==
    LET s4 == u[4] + v[4]
        s3 == u[3] + v[3] + s4 \div LimbBase
        s2 == u[2] + v[2] + s3 \div LimbBase
        s1 == u[1] + v[1] + s2 \div LimbBase
    IN <<s1 % LimbBase, s2 % LimbBase, s3 % LimbBase, s4 % LimbBase>>

\* u - v, wrapping at 2^64
Sub64(u, v) == Add64(Add64(u, Not64(v)), Uint64(1))

\* u / v for v > 0, by repeated subtraction
RECURSIVE Div64(_, _)
Div64(u, v) ==
    IF Less64(u, v) THEN Uint64(0)
    ELSE Add64(Uint64(1), Div64(Sub64(u, v), v))

\* u >> 1
Halve64(u) ==
    LET r1 == u[1]
        r2 == (r1 % 2) * LimbBase + u[2]
        r3 == (r2 % 2) * LimbBase + u[3]
        r4 == (r3 % 2) * LimbBase + u[4]
    IN <<r1 \div 2, r2 \div 2, r3 \div 2, r4 \div 2>>

RECURSIVE HalveTimes(_, _)
HalveTimes(u, n) == IF n = 0 THEN u ELSE HalveTimes(Halve64(u), n - 1)

\* u >> count: a count of 64 or more leaves nothing
Shr64(u, count) ==
    IF Less64(count, Uint64(64)) THEN HalveTimes(u, ToInt(count))
    ELSE Uint64(0)

\* 10 * u, wrapping at 2^64
TimesTen(u) ==
    LET twice == Add64(u, u)
        eightTimes == Add64(Add64(twice, twice), Add64(twice, twice))
    IN Add64(eightTimes, twice)

RECURSIVE TimesTenN(_, _)
TimesTenN(u, n) == IF n = 0 THEN u ELSE TimesTenN(TimesTen(u), n - 1)

\* the uint64 written in decimal as the digits of billions followed by the
\* nine digits of units
Decimal(billions, units) ==
    Add64(TimesTenN(Uint64(billions), 9), Uint64(units))

----------------------------------------------------------------------------
(* the coinbase reward *)

\* ^uint64(0)
subsidyReductionInterval == Not64(Uint64(0))

\* uint64(140700000750000000)
InitialBlockSubsidy == Decimal(140700000, 750000000)

\* consensus.BlockSubsidy
BlockSubsidy(height) ==
    IF height = Uint64(0) THEN InitialBlockSubsidy
    ELSE Shr64(Uint64(baseSubsidy), Div64(height, subsidyReductionInterval))

----------------------------------------------------------------------------
(* programs: the instruction list vm.ParseProgram yields, plus a flag for   *)
(* a byte string whose tail does not parse                                  *)

Inst(op, len, data) == [op |-> op, len |-> len, data |-> data]

\* opcodes not above OP_16: the data pushes and the small integers
SmallOps == {"OP_0", "OP_DATA_3", "OP_DATA_20", "OP_DATA_32", "OP_1"}

OpLeqOP16(op) == op \in SmallOps

Prog(insts, bad) == [insts |-> insts, bad |-> bad]

ParseProgram(prog) ==
    IF prog.bad THEN [err |-> "ErrShortProgram", insts |-> <<>>]
    ELSE [err |-> "nil", insts |-> prog.insts]

IsUnspendable(prog) ==
    Len(prog.insts) > 0 /\ prog.insts[1].op = "OP_FAIL"

IsStraightforward(prog) ==
    LET p == ParseProgram(prog) IN
    IF p.err # "nil" THEN FALSE
    ELSE IF Len(p.insts) # 1 THEN FALSE
    ELSE p.insts[1].op = "OP_1" \/ p.insts[1].op = "OP_FAIL"

IsP2WSHScript(prog) ==
    LET p == ParseProgram(prog) IN
    IF p.err # "nil" THEN FALSE
    ELSE IF Len(p.insts) # 2 THEN FALSE
    ELSE IF ~OpLeqOP16(p.insts[1].op) THEN FALSE
    ELSE p.insts[2].op = "OP_DATA_20"
         /\ p.insts[2].len = PayToWitnessScriptHashDataSize

IsP2ContractProgram(prog) ==
    LET p == ParseProgram(prog) IN
    IF p.err # "nil" THEN FALSE
    ELSE IF Len(p.insts) # 3 THEN FALSE
    ELSE IF ~OpLeqOP16(p.insts[1].op) THEN FALSE
    ELSE IF p.insts[2].op # "VM_EVM" THEN FALSE
    ELSE p.insts[3].op = "OP_DATA_20" /\ p.insts[3].len = 20

IsP2WScript(prog) ==
    IsP2WSHScript(prog) \/ IsStraightforward(prog) \/ IsP2ContractProgram(prog)

IsOpHybrid(prog, last) ==
    LET p == ParseProgram(prog) IN
    IF p.err # "nil" THEN FALSE
    ELSE IF Len(p.insts) # 4 THEN FALSE
    ELSE IF ~OpLeqOP16(p.insts[1].op) THEN FALSE
    ELSE IF ~OpLeqOP16(p.insts[2].op) THEN FALSE
    ELSE IF p.insts[3].op # "OP_DATA_20" \/ p.insts[3].len # 20 THEN FALSE
    ELSE p.insts[4].op = last

IsOpDeposit(prog) == IsOpHybrid(prog, "OP_DEPOSIT")

IsOpWithdraw(prog) == IsOpHybrid(prog, "OP_WITHDRAW")

\* segwit.GetHashFromStandardProg: the data of the last instruction
GetHashFromStandardProg(prog) ==
    LET p == ParseProgram(prog) IN
    IF p.err # "nil" THEN [err |-> p.err, hash |-> ""]
    ELSE [err |-> "nil", hash |-> p.insts[Len(p.insts)].data]

----------------------------------------------------------------------------
(* the entries graph *)

NoRef == <<"nil">>
EmptyProg == Prog(<<>>, FALSE)

\* bc.ValueSource / bc.ValueDestination
ValueRef(ref, asset, amount, pos) ==
    [ref |-> ref, asset |-> asset, amount |-> amount, pos |-> pos]

\* one record shape for every entry variant; a variant uses the fields it has
BlankEntry ==
    [typ |-> "none", sources |-> <<>>, dests |-> <<>>, prog |-> EmptyProg,
     prog2 |-> EmptyProg, spent |-> NoRef, ordinal |-> 0, asset |-> "none",
     amount |-> 0, ok |-> TRUE, cost |-> 0, ok2 |-> TRUE, cost2 |-> 0,
     arbLen |-> 0, version |-> 0, timeRange |-> 0, size |-> 0,
     results |-> <<>>, muxId |-> NoRef]

\* entry ids: the type tag followed by the fields writeForHash covers
OutputID(src, prog) == <<"output1", src, prog>>
RetirementID(src) == <<"retirement1", src>>
DepositID(src, prog) == <<"deposit1", src, prog>>
SpendID(spentOutputId) == <<"spend1", spentOutputId>>
IssuanceID(nonce, asset, amount) == <<"issuance1", nonce, asset, amount>>
CoinbaseID(arbLen) == <<"coinbase1", arbLen>>
CreationID(nonce, from, input) == <<"creation1", nonce, from, input>>
WithdrawalID(cp, asset, amount, wp) == <<"withdrawal1", cp, asset, amount, wp>>
MuxID(sources) == <<"mux1", sources>>
TxHeaderID(version, timeRange, results, muxId) ==
    <<"txheader", version, timeRange, results, muxId>>

\* the prevout a SpendInput commits to (map.go: "create entry for prevout")
PrevoutSource(inp) ==
    ValueRef(<<"ext", inp.srcID>>, inp.asset, inp.amount, inp.srcPos)

PrevoutID(inp) == OutputID(PrevoutSource(inp), inp.prog)

InputID(inp) ==
    CASE inp.typ = "spend" -> SpendID(PrevoutID(inp))
      [] inp.typ = "issuance" -> IssuanceID(inp.srcID, inp.asset, inp.amount)
      [] inp.typ = "coinbase" -> CoinbaseID(inp.arbLen)
      [] inp.typ = "creation" -> CreationID(inp.srcID, inp.prog, inp.prog2)
      [] inp.typ = "withdrawal" ->
            WithdrawalID(inp.prog, inp.asset, inp.amount, inp.prog2)

\* the value of mux source i (0-based position i-1)
MuxSourceValue(t, i) ==
    LET inp == t.inputs[i] IN
    CASE inp.typ = "coinbase" ->
            [asset |-> t.outputs[1].asset, amount |-> t.outputs[1].amount]
      [] inp.typ = "creation" -> [asset |-> ZeroAssetID, amount |-> 0]
      [] OTHER -> [asset |-> inp.asset, amount |-> inp.amount]

MuxSources(t) ==
    [i \in 1..Len(t.inputs) |->
        LET v == MuxSourceValue(t, i) IN
        ValueRef(InputID(t.inputs[i]), v.asset, v.amount, 0)]

ResultSource(muxId, out, i) == ValueRef(muxId, out.asset, out.amount, i - 1)

ResultTyp(out) ==
    IF IsUnspendable(out.prog) THEN "retirement"
    ELSE IF IsOpDeposit(out.prog) THEN "deposit"
    ELSE "output"

ResultID(muxId, out, i) ==
    LET src == ResultSource(muxId, out, i) typ == ResultTyp(out) IN
    CASE typ = "retirement" -> RetirementID(src)
      [] typ = "deposit" -> DepositID(src, out.prog)
      [] OTHER -> OutputID(src, out.prog)

ResultIDs(t, muxId) ==
    [i \in 1..Len(t.outputs) |-> ResultID(muxId, t.outputs[i], i)]

\* the destination SetDestination gives the surviving input entry
InputDestination(t, muxId, i) ==
    LET inp == t.inputs[i] v == MuxSourceValue(t, i) IN
    IF inp.typ = "coinbase"
    THEN LET v1 == MuxSourceValue(t, 1) IN ValueRef(muxId, v1.asset, v1.amount, 0)
    ELSE ValueRef(muxId, v.asset, v.amount, i - 1)

InputEntry(t, muxId, i) ==
    LET inp == t.inputs[i] v == MuxSourceValue(t, i) IN
    [BlankEntry EXCEPT
        !.typ = inp.typ,
        !.dests = <<InputDestination(t, muxId, i)>>,
        !.prog = inp.prog,
        !.prog2 = inp.prog2,
        !.spent = IF inp.typ = "spend" THEN PrevoutID(inp) ELSE NoRef,
        !.ordinal = IF inp.typ = "coinbase" THEN 0 ELSE i - 1,
        !.asset = v.asset,
        !.amount = v.amount,
        !.ok = inp.ok, !.cost = inp.cost,
        !.ok2 = inp.ok2, !.cost2 = inp.cost2,
        !.arbLen = inp.arbLen]

PrevoutEntry(inp) ==
    [BlankEntry EXCEPT
        !.typ = "output",
        !.sources = <<PrevoutSource(inp)>>,
        !.prog = inp.prog,
        !.asset = inp.asset, !.amount = inp.amount]

ResultEntry(muxId, out, i) ==
    LET typ == ResultTyp(out) IN
    [BlankEntry EXCEPT
        !.typ = typ,
        !.sources = <<ResultSource(muxId, out, i)>>,
        !.prog = IF typ = "retirement" THEN EmptyProg ELSE out.prog,
        !.ordinal = i - 1,
        !.asset = out.asset, !.amount = out.amount,
        !.ok = out.ok, !.cost = out.cost]

MuxEntry(t, sources, resultIds) ==
    [BlankEntry EXCEPT
        !.typ = "mux",
        !.sources = sources,
        !.dests = [i \in 1..Len(t.outputs) |->
                      ValueRef(resultIds[i], t.outputs[i].asset,
                               t.outputs[i].amount, 0)]]

HeaderEntry(t, resultIds, muxId) ==
    [BlankEntry EXCEPT
        !.typ = "txheader",
        !.version = t.version, !.timeRange = t.timeRange, !.size = t.size,
        !.results = resultIds, !.muxId = muxId]

\* a function given by its (key, value) pairs; for a key that occurs twice the
\* later pair wins, as a later assignment to a Go map does
RECURSIVE MapOf(_, _)
MapOf(pairs, n) ==
    IF n = 0 THEN <<>>
    ELSE (pairs[n][1] :> pairs[n][2]) @@ MapOf(pairs, n - 1)

\* types.mapTx: headerID, the header and the entry map
mapTx(t) ==
    LET sources == MuxSources(t)
        muxId == MuxID(sources)
        resultIds == ResultIDs(t, muxId)
        headerId == TxHeaderID(t.version, t.timeRange, resultIds, muxId)
        prevouts == SelectSeq(t.inputs, LAMBDA inp : inp.typ = "spend")
        pairs ==
            [i \in 1..Len(prevouts) |->
                <<PrevoutID(prevouts[i]), PrevoutEntry(prevouts[i])>>]
            \o [i \in 1..Len(t.inputs) |->
                <<InputID(t.inputs[i]), InputEntry(t, muxId, i)>>]
            \o << <<muxId, MuxEntry(t, sources, resultIds)>> >>
            \o [i \in 1..Len(t.outputs) |->
                <<resultIds[i], ResultEntry(muxId, t.outputs[i], i)>>]
            \o << <<headerId, HeaderEntry(t, resultIds, muxId)>> >>
    IN [headerID |-> headerId, resultIds |-> resultIds, muxId |-> muxId,
        entryMap |-> MapOf(pairs, Len(pairs))]

\* the bc.Tx that types.MapTx fills from what mapTx returned
NewTx(t, m) ==
    [ID |-> m.headerID,
     Version |-> t.version,
     SerializedSize |-> t.size,
     TimeRange |-> t.timeRange,
     ResultIds |-> m.resultIds,
     MuxId |-> m.muxId,
     Entries |-> m.entryMap,
     GasInputIDs |->
        {id \in DOMAIN m.entryMap :
            /\ m.entryMap[id].typ \in {"spend", "withdrawal"}
            /\ m.entryMap[id].dests[1].asset = NativeAssetID},
     SpentOutputIDs |->
        {m.entryMap[id].spent :
            id \in {x \in DOMAIN m.entryMap : m.entryMap[x].typ = "spend"}}]

\* types.MapTx: the bc.Tx wrapper around the entries
MapTx(t) == NewTx(t, mapTx(t))

----------------------------------------------------------------------------
(* gas accounting *)

Min(a, b) == IF a < b THEN a ELSE b

NewGasState ==
    [AssetValue |-> 0, GasLeft |-> 0, GasUsed |-> 0, GasValid |-> FALSE,
     StorageGas |-> 0]

setGasNoCap(g, AssetValue, txSize) ==
    IF AssetValue < 0 THEN [g |-> g, err |-> "ErrGasCalculate"]
    ELSE [g |-> [g EXCEPT !.AssetValue = AssetValue,
                          !.GasLeft = AssetValue \div VMGasRate,
                          !.StorageGas = txSize * StorageGasRate],
          err |-> "nil"]

setGas(g, AssetValue, txSize) ==
    IF AssetValue < 0 THEN [g |-> g, err |-> "ErrGasCalculate"]
    ELSE [g |-> [g EXCEPT !.AssetValue = AssetValue,
                          !.GasLeft = Min(AssetValue \div VMGasRate, MaxGasAmount),
                          !.StorageGas = txSize * StorageGasRate],
          err |-> "nil"]

setGasValidNoCharge(g) ==
    IF g.GasLeft - g.StorageGas < 0 THEN [g |-> g, err |-> "ErrGasCalculate"]
    ELSE [g |-> [g EXCEPT !.GasValid = TRUE], err |-> "nil"]

setGasValid(g) ==
    LET left == g.GasLeft - g.StorageGas IN
    IF left < 0
    THEN [g |-> [g EXCEPT !.GasLeft = left], err |-> "ErrGasCalculate"]
    ELSE [g |-> [g EXCEPT !.GasLeft = left,
                          !.GasUsed = g.GasUsed + g.StorageGas,
                          !.GasValid = TRUE],
          err |-> "nil"]

updateUsageNoCredit(g, gasLeft) ==
    IF gasLeft < 0 THEN [g |-> g, err |-> "ErrGasCalculate"]
    ELSE [g |-> [g EXCEPT !.GasUsed = g.GasUsed + (g.GasLeft - gasLeft),
                          !.GasLeft = gasLeft],
          err |-> "nil"]

updateUsage(g, gasLeft) ==
    IF gasLeft < 0 THEN [g |-> g, err |-> "ErrGasCalculate"]
    ELSE LET g2 == [g EXCEPT !.GasUsed = g.GasUsed + (g.GasLeft - gasLeft),
                             !.GasLeft = gasLeft]
         IN IF ~g2.GasValid
               /\ (g2.GasUsed > DefaultGasCredit \/ g2.StorageGas > g2.GasLeft)
            THEN [g |-> g2, err |-> "ErrOverGasCredit"]
            ELSE [g |-> g2, err |-> "nil"]

\* vm.Verify(context, gasLimit): a program whose witness satisfies it (ok) and
\* whose cost fits the limit returns the remaining gas; anything else fails
Verify(gasLimit, ok, cost) ==
    IF ok /\ cost <= gasLimit
    THEN [err |-> "nil", gasLeft |-> gasLimit - cost]
    ELSE [err |-> "ErrVM", gasLeft |-> 0]

----------------------------------------------------------------------------
(* account state: native balance per address (go-ethereum StateDB)          *)

AddBalance(db, addr, amount) == [db EXCEPT ![addr] = @ + amount]
SubBalance(db, addr, amount) == [db EXCEPT ![addr] = @ - amount]
CanTransfer(db, addr, amount) == db[addr] >= amount

----------------------------------------------------------------------------
(* validation.checkValid and its helpers.                                   *)
(* st  = [gas, cache, db, log, err]: the ValidationState parts that change  *)
(* env = [tx, block, support, gasOrder, nativeFirst]                        *)

Put(f, k, v) == (k :> v) @@ f

Fail(st, err) == [st EXCEPT !.err = err]

\* "if err != nil { return err }": a failed step ends the check, a step that
\* passed hands its state to the code after it
OnSuccess(r, Then(_)) == IF r.err # "nil" THEN r ELSE Then(r)

\* the state with one more event in its log: the visit of an entry, the
\* answer from the cache for one, or a step of the Mux case
Logged(st, ev, id) == [st EXCEPT !.log = Append(@, [ev |-> ev, id |-> id])]

\* the state after a GasState method returned u = [g, err]
WithGas(st, u) == [st EXCEPT !.gas = u.g, !.err = u.err]

\* vm.Verify followed by gasStatus.updateUsage
RunProgram(st, ok, cost) ==
    LET v == Verify(st.gas.GasLeft, ok, cost) IN
    IF v.err # "nil" THEN Fail(st, v.err)
    ELSE WithGas(st, updateUsage(st.gas, v.gasLeft))

\* the op-deposit program: OP_0 <vmType> <addr> OP_DEPOSIT
RunOpDeposit(st, e) ==
    LET zeroOperands == e.prog.insts[1].op = "OP_0" /\ e.prog.insts[2].op = "OP_0"
        v == Verify(st.gas.GasLeft, zeroOperands, e.cost)
        addr == e.prog.insts[3].data
        db2 == IF e.sources[1].asset = NativeAssetID
               THEN AddBalance(st.db, addr, e.sources[1].amount)
               ELSE st.db
    IN IF v.err # "nil" THEN Fail(st, v.err)
       ELSE WithGas([st EXCEPT !.db = db2], updateUsage(st.gas, v.gasLeft))

RunOpWithdrawNoBalanceCheck(st, e) ==
    LET addr == e.prog2.insts[3].data
        native == e.asset = NativeAssetID
        zeroOperands == e.prog2.insts[1].op = "OP_0" /\ e.prog2.insts[2].op = "OP_0"
        v == Verify(st.gas.GasLeft, zeroOperands, e.cost2)
        db2 == IF native THEN SubBalance(st.db, addr, e.amount) ELSE st.db
    IN IF v.err # "nil" THEN Fail(st, v.err)
       ELSE WithGas([st EXCEPT !.db = db2], updateUsage(st.gas, v.gasLeft))

\* the op-withdraw program: OP_0 <vmType> <addr> OP_WITHDRAW
RunOpWithdraw(st, e) ==
    LET addr == e.prog2.insts[3].data
        native == e.asset = NativeAssetID
        zeroOperands == e.prog2.insts[1].op = "OP_0" /\ e.prog2.insts[2].op = "OP_0"
        v == IF zeroOperands /\ native /\ ~CanTransfer(st.db, addr, e.amount)
             THEN [err |-> "ErrInsufficientBalance", gasLeft |-> 0]
             ELSE Verify(st.gas.GasLeft, zeroOperands, e.cost2)
        db2 == IF native THEN SubBalance(st.db, addr, e.amount) ELSE st.db
    IN IF v.err # "nil" THEN Fail(st, v.err)
       ELSE WithGas([st EXCEPT !.db = db2], updateUsage(st.gas, v.gasLeft))

\* vm.IsOpCreate: OP_0 <code> OP_CREATE
IsOpCreate(prog) ==
    LET p == ParseProgram(prog) IN
    IF p.err # "nil" THEN FALSE
    ELSE IF Len(p.insts) # 3 THEN FALSE
    ELSE IF ~OpLeqOP16(p.insts[1].op) THEN FALSE
    ELSE p.insts[3].op = "OP_CREATE"

RECURSIVE SumAmounts(_, _, _)
SumAmounts(refs, asset, i) ==
    IF i > Len(refs) THEN 0
    ELSE (IF refs[i].asset = asset THEN refs[i].amount ELSE 0)
         + SumAmounts(refs, asset, i + 1)

\* parity[asset] once both mux loops have run
Parity(mux, asset) ==
    SumAmounts(mux.sources, asset, 1) - SumAmounts(mux.dests, asset, 1)

checkValidDest(env, ownerID, destPos, vd) ==
    IF vd.ref \notin DOMAIN env.tx.Entries THEN "ErrMissingEntry"
    ELSE LET e == env.tx.Entries[vd.ref] IN
         IF e.typ \in {"output", "retirement", "deposit"} /\ vd.pos # 0
         THEN "ErrPosition"
         ELSE IF e.typ = "mux" /\ vd.pos >= Len(e.sources) THEN "ErrPosition"
         ELSE IF e.typ \notin {"output", "retirement", "deposit", "mux"}
         THEN "ErrEntryType"
         ELSE LET src == IF e.typ = "mux" THEN e.sources[vd.pos + 1]
                         ELSE e.sources[1]
              IN IF src.ref # ownerID THEN "ErrMismatchedReference"
                 ELSE IF src.pos # destPos THEN "ErrMismatchedPosition"
                 ELSE IF src.asset # vd.asset \/ src.amount # vd.amount
                 THEN "ErrMismatchedValue"
                 ELSE "nil"

InputTypes == {"coinbase", "issuance", "spend", "creation", "call", "contract",
               "withdrawal"}

checkSrcLinkNoPosition(env, ownerID, sourcePos, vs) ==
    LET e == env.tx.Entries[vs.ref] IN
    IF e.typ \in InputTypes /\ vs.pos # 0 THEN "ErrPosition"
    ELSE IF e.typ = "mux" /\ vs.pos >= Len(e.dests) THEN "ErrPosition"
    ELSE IF e.typ \notin InputTypes \cup {"mux"} THEN "ErrEntryType"
    ELSE LET dest == IF e.typ = "mux" THEN e.dests[vs.pos + 1] ELSE e.dests[1]
         IN IF dest.ref # ownerID THEN "ErrMismatchedReference"
            ELSE IF dest.asset # vs.asset \/ dest.amount # vs.amount
            THEN "ErrMismatchedValue"
            ELSE "nil"

\* the checks of checkValidSrc that follow its recursive checkValid call
checkSrcLink(env, ownerID, sourcePos, vs) ==
    LET e == env.tx.Entries[vs.ref] IN
    IF e.typ \in InputTypes /\ vs.pos # 0 THEN "ErrPosition"
    ELSE IF e.typ = "mux" /\ vs.pos >= Len(e.dests) THEN "ErrPosition"
    ELSE IF e.typ \notin InputTypes \cup {"mux"} THEN "ErrEntryType"
    ELSE LET dest == IF e.typ = "mux" THEN e.dests[vs.pos + 1] ELSE e.dests[1]
         IN IF dest.ref # ownerID THEN "ErrMismatchedReference"
            ELSE IF dest.pos # sourcePos THEN "ErrMismatchedPosition"
            ELSE IF dest.asset # vs.asset \/ dest.amount # vs.amount
            THEN "ErrMismatchedValue"
            ELSE "nil"

GasInputIDsNone(env) == <<>>

\* vs.tx.GasInputIDs, in the order MapTx has put them in
GasInputIDs(env) == env.gasOrder

RECURSIVE checkValid(_, _, _)
RECURSIVE checkValidSrc(_, _, _, _, _)
RECURSIVE CheckResults(_, _, _)
RECURSIVE CheckGasInputs(_, _, _)
RECURSIVE CheckMuxDests(_, _, _, _)
RECURSIVE CheckMuxSources(_, _, _, _)
RECURSIVE CheckEntry(_, _, _)

checkValidSrc(env, st, ownerID, sourcePos, vs) ==
    IF vs.ref \notin DOMAIN env.tx.Entries THEN Fail(st, "ErrMissingEntry")
    ELSE OnSuccess(checkValid(env, st, vs.ref),
                   LAMBDA r : Fail(r, checkSrcLink(env, ownerID, sourcePos, vs)))

\* TxHeader: for i, resID := range e.ResultIds
CheckResults(env, st, i) ==
    IF i > Len(env.tx.ResultIds) THEN Fail(st, "nil")
    ELSE OnSuccess(checkValid(env, st, env.tx.ResultIds[i]),
                   LAMBDA r : CheckResults(env, r, i + 1))

\* Mux: for _, inputID := range vs.tx.GasInputIDs
CheckGasInputs(env, st, i) ==
    IF i > Len(GasInputIDs(env)) THEN Fail(st, "nil")
    ELSE OnSuccess(checkValid(env, st, GasInputIDs(env)[i]),
                   LAMBDA r : CheckGasInputs(env, r, i + 1))

\* Mux: for i, dest := range e.WitnessDestinations
CheckMuxDests(env, muxId, mux, i) ==
    IF i > Len(mux.dests) THEN "nil"
    ELSE LET err == checkValidDest(env, muxId, i - 1, mux.dests[i]) IN
         IF err # "nil" THEN err ELSE CheckMuxDests(env, muxId, mux, i + 1)

\* Mux: for i, src := range e.Sources
CheckMuxSources(env, st, muxId, i) ==
    LET mux == env.tx.Entries[muxId] IN
    IF i > Len(mux.sources) THEN Fail(st, "nil")
    ELSE OnSuccess(checkValidSrc(env, st, muxId, i - 1, mux.sources[i]),
                   LAMBDA r : CheckMuxSources(env, r, muxId, i + 1))

CheckMuxParityNoUnbalanced(env, st, mux) ==
    LET srcAssets == {mux.sources[i].asset : i \in 1..Len(mux.sources)}
        noSource == \E i \in 1..Len(mux.dests) : mux.dests[i].asset \notin srcAssets
        hasNative == NativeAssetID \in srcAssets
        sg == setGas(st.gas, Parity(mux, NativeAssetID), env.tx.SerializedSize)
    IN IF noSource THEN Fail(st, "ErrNoSource")
       ELSE IF ~hasNative THEN Fail(st, "nil")
       ELSE IF sg.err # "nil" THEN Fail(st, sg.err)
       ELSE [st EXCEPT !.gas = sg.g, !.err = "nil"]

\* Mux, first part: the parity map and setGas / ErrUnbalanced, visited in map
\* order (env.nativeFirst: the native asset comes before an unbalanced one)
CheckMuxParity(env, st, mux) ==
    LET srcAssets == {mux.sources[i].asset : i \in 1..Len(mux.sources)}
        noSource == \E i \in 1..Len(mux.dests) : mux.dests[i].asset \notin srcAssets
        unbalanced == \E a \in srcAssets \ {NativeAssetID} : Parity(mux, a) # 0
        hasNative == NativeAssetID \in srcAssets
        sg == setGas(st.gas, Parity(mux, NativeAssetID), env.tx.SerializedSize)
    IN IF noSource THEN Fail(st, "ErrNoSource")
       ELSE IF unbalanced /\ ~(hasNative /\ env.nativeFirst)
       THEN Fail(st, "ErrUnbalanced")
       ELSE IF ~hasNative THEN Fail(st, "nil")
       ELSE IF sg.err # "nil" THEN Fail(st, sg.err)
       ELSE IF unbalanced THEN [st EXCEPT !.gas = sg.g, !.err = "ErrUnbalanced"]
       ELSE [st EXCEPT !.gas = sg.g, !.err = "nil"]

\* Mux: the parity map, the gas inputs, the destinations, setGasValid when
\* there are gas inputs, then the sources
CheckMux(env, st, id) ==
    LET mux == env.tx.Entries[id]
        native == \E i \in 1..Len(mux.sources) :
                      mux.sources[i].asset = NativeAssetID
    IN
    OnSuccess(CheckMuxParity(env, st, mux), LAMBDA p :
    OnSuccess(CheckGasInputs(env, IF native THEN Logged(p, "setGas", id)
                                  ELSE p, 1), LAMBDA g :
    OnSuccess(Fail(g, CheckMuxDests(env, id, mux, 1)), LAMBDA d :
    OnSuccess(IF Len(env.gasOrder) > 0
              THEN OnSuccess(WithGas(Logged(d, "dests", id),
                                     setGasValid(d.gas)),
                             LAMBDA f : Logged(f, "setGasValid", id))
              ELSE Logged(d, "dests", id), LAMBDA v :
    CheckMuxSources(env, v, id, 1)))))

CheckHeader(env, st, id) ==
    OnSuccess(CheckResults(env, st, 1), LAMBDA r :
        IF env.tx.Version = 1 /\ Len(env.tx.ResultIds) = 0
        THEN checkValid(env, r, env.tx.MuxId)
        ELSE r)

CheckOutput(env, st, id) ==
    LET e == env.tx.Entries[id]
        h == GetHashFromStandardProg(e.prog)
    IN OnSuccess(checkValidSrc(env, st, id, 0, e.sources[1]), LAMBDA r :
          IF env.support /\ e.sources[1].asset = NativeAssetID
          THEN IF h.err # "nil" THEN Fail(r, h.err)
               ELSE [r EXCEPT !.db = AddBalance(r.db, h.hash,
                                                e.sources[1].amount)]
          ELSE r)

CheckRetirement(env, st, id) ==
    checkValidSrc(env, st, id, 0, env.tx.Entries[id].sources[1])

CheckIssuance(env, st, id) ==
    LET e == env.tx.Entries[id] IN
    OnSuccess(RunProgram(st, e.ok, e.cost), LAMBDA r :
        Fail(r, checkValidDest(env, id, 0, e.dests[1])))

CheckCreation(env, st, id) ==
    LET e == env.tx.Entries[id]
        h == GetHashFromStandardProg(e.prog)
    IN OnSuccess(RunProgram(st, e.ok, e.cost), LAMBDA r :
          IF IsOpCreate(e.prog2)
          THEN IF h.err # "nil" THEN Fail(r, h.err)
               ELSE RunProgram(r, e.ok2, e.cost2)
          ELSE r)

CheckDeposit(env, st, id) ==
    LET e == env.tx.Entries[id] IN
    OnSuccess(checkValidSrc(env, st, id, 0, e.sources[1]), LAMBDA r :
        IF IsOpDeposit(e.prog) THEN RunOpDeposit(r, e) ELSE r)

CheckWithdrawal(env, st, id) ==
    LET e == env.tx.Entries[id] IN
    OnSuccess(RunProgram(st, e.ok, e.cost), LAMBDA r :
    OnSuccess(Fail(r, checkValidDest(env, id, 0, e.dests[1])), LAMBDA d :
        IF IsOpWithdraw(e.prog2) THEN RunOpWithdraw(d, e) ELSE d))

CheckSpend(env, st, id) ==
    LET e == env.tx.Entries[id]
        spentOutput == env.tx.Entries[e.spent]
        h == GetHashFromStandardProg(spentOutput.prog)
    IN OnSuccess(RunProgram(st, e.ok, e.cost), LAMBDA r :
       IF spentOutput.sources[1].asset # e.dests[1].asset
          \/ spentOutput.sources[1].amount # e.dests[1].amount
       THEN Fail(r, "ErrMismatchedValue")
       ELSE OnSuccess(Fail(r, checkValidDest(env, id, 0, e.dests[1])),
                      LAMBDA d :
          IF env.support /\ spentOutput.sources[1].asset = NativeAssetID
          THEN IF h.err # "nil" THEN Fail(d, h.err)
               ELSE [d EXCEPT !.db = SubBalance(d.db, h.hash,
                                                spentOutput.sources[1].amount)]
          ELSE d))

CheckCoinbaseNoSizeLimit(env, st, id) ==
    LET e == env.tx.Entries[id] IN
    IF ~env.block.first THEN Fail(st, "ErrWrongCoinbaseTransaction")
    ELSE IF e.dests[1].asset # NativeAssetID THEN Fail(st, "ErrWrongCoinbaseAsset")
    ELSE OnSuccess(Fail(st, checkValidDest(env, id, 0, e.dests[1])),
                   LAMBDA d : [d EXCEPT !.gas.GasValid = TRUE])

CheckCoinbase(env, st, id) ==
    LET e == env.tx.Entries[id] IN
    IF ~env.block.first THEN Fail(st, "ErrWrongCoinbaseTransaction")
    ELSE IF e.dests[1].asset # NativeAssetID THEN Fail(st, "ErrWrongCoinbaseAsset")
    ELSE IF e.arbLen > CoinbaseArbitrarySizeLimit
    THEN Fail(st, "ErrCoinbaseArbitraryOversize")
    ELSE OnSuccess(Fail(st, checkValidDest(env, id, 0, e.dests[1])),
                   LAMBDA d : [d EXCEPT !.gas.GasValid = TRUE])

\* the switch of checkValid on the type of entry id
CheckEntry(env, st, id) ==
    LET e == env.tx.Entries[id] IN
    CASE e.typ = "txheader" -> CheckHeader(env, st, id)
      [] e.typ = "mux" -> CheckMux(env, st, id)
      [] e.typ = "output" -> CheckOutput(env, st, id)
      [] e.typ = "retirement" -> CheckRetirement(env, st, id)
      [] e.typ = "issuance" -> CheckIssuance(env, st, id)
      [] e.typ = "creation" -> CheckCreation(env, st, id)
      [] e.typ = "deposit" -> CheckDeposit(env, st, id)
      [] e.typ = "withdrawal" -> CheckWithdrawal(env, st, id)
      [] e.typ = "spend" -> CheckSpend(env, st, id)
      [] e.typ = "coinbase" -> CheckCoinbase(env, st, id)
      [] OTHER -> Fail(st, "ErrUnexpectedType")

\* the deferred vs.cache[entryID] = err of checkValid
CacheResultNone(r, id) == r

CacheResult(r, id) == [r EXCEPT !.cache = Put(r.cache, id, r.err)]

checkValid(env, st, id) ==
    IF id \in DOMAIN st.cache THEN Fail(Logged(st, "hit", id), st.cache[id])
    ELSE CacheResult(CheckEntry(env, Fail(Logged(st, "visit", id), "nil"),
                                id), id)

checkStandardTxInputsOnly(tx) ==
    LET gasOK(id) ==
            LET e == tx.Entries[id] IN
            CASE e.typ = "spend" -> IsP2WScript(tx.Entries[e.spent].prog)
              [] e.typ = "withdrawal" -> IsP2WScript(e.prog)
              [] OTHER -> FALSE
    IN IF \E id \in tx.GasInputIDs : ~gasOK(id) THEN "ErrNotStandardTx"
       ELSE "nil"

checkStandardTx(tx) ==
    LET gasOK(id) ==
            LET e == tx.Entries[id] IN
            CASE e.typ = "spend" -> IsP2WScript(tx.Entries[e.spent].prog)
              [] e.typ = "withdrawal" -> IsP2WScript(e.prog)
              [] OTHER -> FALSE
        resOK(id) ==
            LET e == tx.Entries[id] IN
            IF e.typ # "output" \/ e.sources[1].asset # NativeAssetID THEN TRUE
            ELSE IsP2WScript(e.prog)
    IN IF \E id \in tx.GasInputIDs : ~gasOK(id) THEN "ErrNotStandardTx"
       ELSE IF \E i \in 1..Len(tx.ResultIds) : ~resOK(tx.ResultIds[i])
       THEN "ErrNotStandardTx"
       ELSE "nil"

checkTimeRangeNever(tx, block) == "nil"

checkTimeRange(tx, block) ==
    IF tx.TimeRange = 0 THEN "nil"
    ELSE IF tx.TimeRange < block.height THEN "ErrBadTimeRange"
    ELSE "nil"

EmptyCache == [x \in {} |-> "nil"]

\* validation.ValidateTx: the returned ValidationState parts and the error
ValidateTx(tx, block, sup, db, gasOrder, nativeFirst) ==
    LET st0 == [gas |-> NewGasState, cache |-> EmptyCache, db |-> db,
                log |-> <<>>, err |-> "nil"]
        env == [tx |-> tx, block |-> block, support |-> sup,
                gasOrder |-> gasOrder, nativeFirst |-> nativeFirst]
    IN IF block.version = 1 /\ tx.Version # 1 THEN Fail(st0, "ErrTxVersion")
       ELSE IF tx.SerializedSize = 0 THEN Fail(st0, "ErrWrongTransactionSize")
       ELSE IF checkTimeRange(tx, block) # "nil"
       THEN Fail(st0, checkTimeRange(tx, block))
       ELSE IF checkStandardTx(tx) # "nil" THEN Fail(st0, checkStandardTx(tx))
       ELSE checkValid(env, st0, tx.ID)

\* the orders in which ranging over the entries map can fill GasInputIDs
RECURSIVE Perms(_)
Perms(S) ==
    IF S = {} THEN {<<>>}
    ELSE UNION {{<<x>> \o p : p \in Perms(S \ {x})} : x \in S}

----------------------------------------------------------------------------
(* the wire transactions the model validates *)

\* inputs plus outputs of a transaction
MaxIO == 3

P2WSHProgram(hash) ==
    Prog(<<Inst("OP_0", 0, ""), Inst("OP_DATA_20", 20, hash)>>, FALSE)
DefaultCoinbaseProgram == Prog(<<Inst("OP_1", 0, "")>>, FALSE)
RetireProgram == Prog(<<Inst("OP_FAIL", 0, "")>>, FALSE)
DepositProgram(addr) ==
    Prog(<<Inst("OP_0", 0, ""), Inst("OP_0", 0, ""),
           Inst("OP_DATA_20", 20, addr), Inst("OP_DEPOSIT", 0, "")>>, FALSE)
WithdrawProgram(addr) ==
    Prog(<<Inst("OP_0", 0, ""), Inst("OP_0", 0, ""),
           Inst("OP_DATA_20", 20, addr), Inst("OP_WITHDRAW", 0, "")>>, FALSE)

Addresses == {"", "h1", "h2", "b1", "b2", "b3", "b4"}

\* ok/cost: whether the witness satisfies the program, and what running it
\* costs (every run costs gas); ok2/cost2 are those of the second program
TxInput(typ, asset, amount, prog, prog2, srcID, ok, cost) ==
    [typ |-> typ, asset |-> asset, amount |-> amount, prog |-> prog,
     prog2 |-> prog2, srcID |-> srcID, srcPos |-> 0, ok |-> ok, cost |-> cost,
     ok2 |-> TRUE, cost2 |-> 500, arbLen |-> 2]

TxOutput(asset, amount, prog) ==
    [asset |-> asset, amount |-> amount, prog |-> prog, ok |-> TRUE, cost |-> 500]

SpendInput(asset, amount, srcID, ok, cost) ==
    TxInput("spend", asset, amount, P2WSHProgram("h1"), EmptyProg, srcID, ok, cost)

CoinbaseInput == TxInput("coinbase", "none", 0, EmptyProg, EmptyProg, "none", TRUE, 0)

InputChoices ==
    { SpendInput(NativeAssetID, 10000000, "s2", TRUE, 1000),
      SpendInput(NativeAssetID, 10000000, "s3", TRUE, 31000),
      SpendInput(NativeAssetID, 10000000, "s4", FALSE, 1000),
      SpendInput("A", 5, "s5", TRUE, 1000),
      CoinbaseInput,
      TxInput("withdrawal", NativeAssetID, 500, P2WSHProgram("h1"),
              WithdrawProgram("h1"), "none", TRUE, 1000) }

OutputChoices ==
    { TxOutput(NativeAssetID, 100, P2WSHProgram("h2")),
      TxOutput("A", 5, P2WSHProgram("h2")),
      TxOutput("A", 3, P2WSHProgram("h2")),
      TxOutput(NativeAssetID, 100, DepositProgram("h2")) }

SeqsUpTo(S, n) == UNION {[1..k -> S] : k \in 0..n}

\* sequences without repetition of at most n elements of S
RECURSIVE DistinctSeqs(_, _)
DistinctSeqs(S, n) ==
    IF n = 0 THEN {<<>>}
    ELSE {<<>>} \cup UNION {{<<x>> \o q : q \in DistinctSeqs(S \ {x}, n - 1)} :
                              x \in S}

\* MapTx reads tx.Outputs[0] for a coinbase input: such a tx has an output
WellFormed(t) ==
    (\E i \in 1..Len(t.inputs) : t.inputs[i].typ = "coinbase")
        => Len(t.outputs) > 0

TxData(version, size, timeRange, inputs, outputs) ==
    [version |-> version, size |-> size, timeRange |-> timeRange,
     inputs |-> inputs, outputs |-> outputs]

TxUniverse ==
    {t \in UNION {{TxData(v, 100, 0, ins, outs) :
                      v \in {1, 2}, ins \in [1..k -> InputChoices],
                      outs \in SeqsUpTo(OutputChoices, MaxIO - k)} :
                  k \in 0..MaxIO} : WellFormed(t)}

\* the block a transaction is validated in: its version and whether the
\* transaction is block.Transactions[0]
BlockContext(version, first) ==
    [version |-> version, height |-> 5, first |-> first]

BlockContexts ==
    {BlockContext(1, FALSE), BlockContext(1, TRUE), BlockContext(2, FALSE)}

InitialDB == [a \in Addresses |-> IF a = "h1" THEN 1000 ELSE 0]

NoResult ==
    [done |-> FALSE, gas |-> NewGasState, cache |-> EmptyCache,
     db |-> InitialDB, log |-> <<>>, err |-> "nil"]

EmptyPool == [x \in {} |-> 0]

NoCall == [op |-> "none", tx |-> 0, afterEviction |-> FALSE,
           admitted |-> FALSE, err |-> "nil"]

\* the pool facade untouched
PoolIdle ==
    /\ pool = EmptyPool /\ errCache = EmptyPool
    /\ now = 0 /\ evicted = {} /\ lastCall = NoCall /\ calls = 0

NoStep ==
    [tx |-> 0, err |-> "nil", gas |-> NewGasState, outcome |-> "none",
     before |-> InitialDB, touched |-> InitialDB, after |-> InitialDB]

NoBlock ==
    [Version |-> 0, Height |-> 0, coinbase |-> <<>>, txs |-> <<>>,
     status |-> <<>>, StateRoot |-> InitialDB]

\* NewBlockTemplate not running
NoMining ==
    [pc |-> "idle", utxos |-> {}, snapshot |-> EmptyPool, queue |-> <<>>,
     view |-> {}, stateDB |-> InitialDB, gasUsed |-> 0, txFee |-> 0,
     included |-> <<>>, step |-> NoStep, err |-> "nil", block |-> NoBlock]

NoCandidate ==
    [Version |-> 0, Height |-> 0, seal |-> "nil", Transactions |-> <<>>,
     commits |-> "nil"]

\* ValidateBlock not running
NoVerdict ==
    [pc |-> "idle", err |-> "nil", i |-> 0, blockGasSum |-> 0,
     assetValues |-> <<>>, status |-> <<>>, gasValid |-> <<>>,
     stateDB |-> InitialDB]

MiningIdle == mining = NoMining /\ cand = NoCandidate /\ verdict = NoVerdict

NoCoinbase == [err |-> "none", tx |-> <<>>]

NoCalc ==
    [height |-> Uint64(0), fee |-> Uint64(0), subsidy |-> <<>>, total |-> <<>>,
     coinbase |-> NoCoinbase]

\* a node of the block index
BlockNode(height, hash) == [Height |-> height, Hash |-> hash]

\* the node the chain starts from
TipNode == BlockNode(4, "n4")

\* no goroutine in the Chain
NoGoroutines ==
    /\ bestNode = TipNode /\ mainChain = TipNode
    /\ mu = "none" /\ procs = <<>>

\* no goroutine in the Chain, no subsidy computed
ChainIdle == calc = NoCalc /\ NoGoroutines

InitTx ==
    /\ txd \in TxUniverse
    /\ blk \in BlockContexts
    /\ support \in BOOLEAN
    /\ vres = NoResult
    /\ PoolIdle /\ MiningIdle
    /\ ChainIdle

\* one call of validation.ValidateTx(tx, block, chain, stateDB)
ValidateTxCall ==
    /\ ~vres.done
    /\ \E tx \in {MapTx(txd)} :
       \E gasOrder \in Perms(tx.GasInputIDs), nativeFirst \in BOOLEAN :
       \E r \in {ValidateTx(tx, blk, support, InitialDB, gasOrder,
                            nativeFirst)} :
         vres' = [done |-> TRUE, gas |-> r.gas, cache |-> r.cache,
                  db |-> r.db, log |-> r.log, err |-> r.err]
    /\ UNCHANGED <<calc, chainVars,
                   txd, blk, support, poolVars, mining, blockVars>>

NextTx == ValidateTxCall

SpecTx == InitTx /\ [][NextTx]_vars

\* coinbase inputs with no arbitrary data, with as much as the limit allows
\* and with one byte more
CoinbaseInputs ==
    {[CoinbaseInput EXCEPT !.arbLen = n] :
        n \in {0, CoinbaseArbitrarySizeLimit, CoinbaseArbitrarySizeLimit + 1}}

\* transactions with a coinbase input, alone or next to other inputs
CoinbaseUniverse ==
    {TxData(1, 100, 0, <<c>> \o ins, outs) :
        c \in CoinbaseInputs,
        ins \in SeqsUpTo({SpendInput(NativeAssetID, 10000000, "s2", TRUE, 1000),
                          SpendInput("A", 5, "s5", TRUE, 1000)}, MaxIO - 2),
        outs \in SeqsUpTo(OutputChoices, MaxIO - 1) \ {<<>>}}

InitCoinbase ==
    /\ txd \in CoinbaseUniverse
    /\ blk \in BlockContexts
    /\ support \in BOOLEAN
    /\ vres = NoResult
    /\ PoolIdle /\ MiningIdle
    /\ ChainIdle

\* ValidateTx on a transaction with a coinbase input
SpecCoinbase == InitCoinbase /\ [][NextTx]_vars

\* inputs for large gas budgets: a native spend that pays for more gas than
\* MaxGasAmount, and a program that uses most of the gas
BudgetInputs ==
    { SpendInput(NativeAssetID, 1100000000, "s2", TRUE, 1000),
      SpendInput(NativeAssetID, 10000000, "s3", TRUE, 29000),
      SpendInput(NativeAssetID, 10000000, "s4", TRUE, 31000),
      SpendInput("A", 5, "s5", TRUE, 4000000),
      CoinbaseInput }

\* transactions over them with at most one spend of the large prevout
BudgetUniverse ==
    {t \in UNION {{TxData(1, 100, 0, ins, outs) :
                      ins \in [1..k -> BudgetInputs],
                      outs \in SeqsUpTo(OutputChoices, MaxIO - k)} :
                  k \in 0..MaxIO} :
        /\ WellFormed(t)
        /\ Cardinality({i \in 1..Len(t.inputs) : t.inputs[i].srcID = "s2"}) <= 1}

InitBudget ==
    /\ txd \in BudgetUniverse
    /\ blk \in BlockContexts
    /\ support \in BOOLEAN
    /\ vres = NoResult
    /\ PoolIdle /\ MiningIdle
    /\ ChainIdle

\* ValidateTx on transactions with large gas budgets
SpecBudget == InitBudget /\ [][NextTx]_vars

Init == InitTx
Next == NextTx
Spec == SpecTx

----------------------------------------------------------------------------
(* checkStandardTx over the control programs a transaction can carry *)

\* inputs plus outputs of a transaction given to checkStandardTx
MaxStdIO == 2

RetireProgramWithComment ==
    Prog(<<Inst("OP_FAIL", 0, ""), Inst("OP_DATA_3", 3, "memo")>>, FALSE)
ContractShapedProgram(addr) ==
    Prog(<<Inst("OP_0", 0, ""), Inst("VM_EVM", 0, ""),
           Inst("OP_DATA_20", 20, addr)>>, FALSE)
P2SPMultiSigProgram ==
    Prog(<<Inst("OP_TXSIGHASH", 0, ""), Inst("OP_DATA_32", 32, "k1"),
           Inst("OP_1", 0, ""), Inst("OP_1", 0, ""),
           Inst("OP_CHECKMULTISIG", 0, "")>>, FALSE)
\* a push whose data is cut short: ParseProgram fails after one instruction
ShortProgram == Prog(<<Inst("OP_0", 0, "")>>, TRUE)

StdPrograms ==
    { P2WSHProgram("h1"), DefaultCoinbaseProgram, RetireProgram,
      RetireProgramWithComment, ContractShapedProgram("h1"),
      DepositProgram("h1"), WithdrawProgram("h1"), P2SPMultiSigProgram,
      ShortProgram }

StdInputChoices ==
    {TxInput("spend", NativeAssetID, 10000000, p, EmptyProg, "s2", TRUE, 1000) :
        p \in StdPrograms}
    \cup {TxInput("withdrawal", NativeAssetID, 500, p, WithdrawProgram("h1"),
                  "none", TRUE, 1000) : p \in StdPrograms}
    \cup {TxInput("spend", "A", 5, P2SPMultiSigProgram, EmptyProg, "s5", TRUE, 1000)}

StdOutputChoices ==
    {TxOutput(NativeAssetID, 100, p) : p \in StdPrograms}
    \cup {TxOutput("A", 5, P2SPMultiSigProgram)}

StdUniverse ==
    UNION {{TxData(1, 100, 0, ins, outs) :
               ins \in [1..k -> StdInputChoices],
               outs \in SeqsUpTo(StdOutputChoices, MaxStdIO - k)} :
           k \in 0..MaxStdIO}

InitStd ==
    /\ txd \in StdUniverse
    /\ blk = BlockContext(1, FALSE)
    /\ support = FALSE
    /\ vres = NoResult
    /\ PoolIdle /\ MiningIdle
    /\ ChainIdle

\* one call of checkStandardTx on the mapped transaction
CheckStandardCall ==
    /\ ~vres.done
    /\ vres' = [NoResult EXCEPT !.done = TRUE,
                                !.err = checkStandardTx(MapTx(txd))]
    /\ UNCHANGED <<calc, chainVars,
                   txd, blk, support, poolVars, mining, blockVars>>

NextStd == CheckStandardCall

SpecStd == InitStd /\ [][NextStd]_vars

\* inputs and outputs with standard and other control programs
EarlyInputs ==
    { SpendInput(NativeAssetID, 10000000, "s2", TRUE, 1000),
      TxInput("spend", NativeAssetID, 10000000, P2SPMultiSigProgram, EmptyProg,
              "s3", TRUE, 1000),
      SpendInput("A", 5, "s5", TRUE, 1000) }

EarlyOutputs ==
    { TxOutput(NativeAssetID, 100, P2WSHProgram("h2")),
      TxOutput(NativeAssetID, 100, P2SPMultiSigProgram),
      TxOutput("A", 5, P2WSHProgram("h2")) }

\* time ranges: none, below, at and above the height of the block
TimeRanges == {0, 4, 5, 6}

\* transactions of either version, with and without a serialized size
EarlyUniverse ==
    UNION {{TxData(v, size, tr, ins, outs) :
               v \in {1, 2}, size \in {0, 100}, tr \in TimeRanges,
               ins \in [1..k -> EarlyInputs],
               outs \in SeqsUpTo(EarlyOutputs, MaxStdIO - k)} :
           k \in 0..MaxStdIO}

InitEarly ==
    /\ txd \in EarlyUniverse
    /\ blk \in BlockContexts
    /\ support \in BOOLEAN
    /\ vres = NoResult
    /\ PoolIdle /\ MiningIdle
    /\ ChainIdle

\* ValidateTx on transactions the checks before checkValid can turn down
SpecEarly == InitEarly /\ [][NextTx]_vars

----------------------------------------------------------------------------
(* the chain tip, and the transactions submitted to the node *)

\* c.BestBlockHeader(): a version-1 chain at height 4
BestBlockHeader == [version |-> 1, height |-> 4]

\* the account state at the best header's StateRoot
StateRootDB ==
    [a \in Addresses |->
        CASE a = "h1" -> 3000000
          [] a \in {"b1", "b2", "b3", "b4"} -> 680000000
          [] OTHER -> 0]

\* a transaction paying 680,000,000 for 3,400,000 gas, 3,398,900 of it used
\* by the program of its asset-A spend
BigTx(addr, nativeSrc, assetSrc) ==
    TxData(1, 100, 0,
           <<TxInput("spend", NativeAssetID, 680000000, P2WSHProgram(addr),
                     EmptyProg, nativeSrc, TRUE, 1000),
             TxInput("spend", "A", 5, P2WSHProgram(addr), EmptyProg, assetSrc,
                     TRUE, 3398900)>>,
           <<TxOutput("A", 5, P2WSHProgram("h2"))>>)

\* a plain native transfer with a fee of 1,000,000
SmallTx ==
    TxData(1, 100, 0,
           <<SpendInput(NativeAssetID, 1000100, "n4", TRUE, 1000)>>,
           <<TxOutput(NativeAssetID, 100, P2WSHProgram("h2"))>>)

\* pays its gas from the prevout CoinbaseInputTx spends, then the witness of
\* its asset-A spend fails
FailingTx ==
    TxData(1, 100, 0,
           <<SpendInput(NativeAssetID, 1000100, "n8", TRUE, 1000),
             SpendInput("A", 5, "a5", FALSE, 1000)>>,
           <<TxOutput("A", 5, P2WSHProgram("h2"))>>)

\* withdraws 2,000,000 of h1's 3,000,000 account balance
WithdrawTx(to) ==
    TxData(1, 100, 0,
           <<TxInput("withdrawal", NativeAssetID, 2000000, P2WSHProgram(to),
                     WithdrawProgram("h1"), "none", TRUE, 1000)>>,
           <<TxOutput(NativeAssetID, 100, P2WSHProgram(to))>>)

\* withdraws 500,000 and 2,000,000 of h1's account balance
DoubleWithdrawTx ==
    TxData(1, 100, 0,
           <<TxInput("withdrawal", NativeAssetID, 500000, P2WSHProgram("h2"),
                     WithdrawProgram("h1"), "none", TRUE, 1000),
             TxInput("withdrawal", NativeAssetID, 2000000, P2WSHProgram("h2"),
                     WithdrawProgram("h1"), "none", TRUE, 1000)>>,
           <<TxOutput(NativeAssetID, 100, P2WSHProgram("h2"))>>)

\* a coinbase input next to a native spend that pays the gas
CoinbaseInputTx ==
    TxData(1, 100, 0,
           <<CoinbaseInput, SpendInput(NativeAssetID, 1000100, "n8", TRUE, 1000)>>,
           <<TxOutput(NativeAssetID, 100, P2WSHProgram("h2"))>>)

\* the witness of its only gas input fails
UnsignedTx ==
    TxData(1, 100, 0,
           <<SpendInput(NativeAssetID, 1000100, "n9", FALSE, 1000)>>,
           <<TxOutput(NativeAssetID, 100, P2WSHProgram("h2"))>>)

\* a BigTx whose second asset-A spend has a failing witness
BigFailingTx ==
    TxData(1, 100, 0,
           <<TxInput("spend", NativeAssetID, 680000000, P2WSHProgram("b3"),
                     EmptyProg, "n3", TRUE, 1000),
             TxInput("spend", "A", 5, P2WSHProgram("b3"), EmptyProg, "a3",
                     TRUE, 3398900),
             TxInput("spend", "A", 5, P2WSHProgram("b3"), EmptyProg, "a6",
                     FALSE, 1000)>>,
           <<TxOutput("A", 5, P2WSHProgram("h2")),
             TxOutput("A", 5, P2WSHProgram("h2"))>>)

\* a transaction without inputs and outputs
EmptyTx == TxData(1, 100, 0, <<>>, <<>>)

\* its native output is worth more than its native input
OverdrawnTx ==
    TxData(1, 100, 0,
           <<SpendInput(NativeAssetID, 100, "n11", TRUE, 1000)>>,
           <<TxOutput(NativeAssetID, 1000100, P2WSHProgram("h2"))>>)

KnownTxData ==
    <<BigTx("b1", "n1", "a1"), BigTx("b2", "n2", "a2"), BigFailingTx,
      SmallTx, FailingTx, WithdrawTx("h1"), DoubleWithdrawTx, CoinbaseInputTx,
      UnsignedTx, BigTx("b4", "n10", "a10"), EmptyTx, OverdrawnTx>>

\* types.Tx{TxData, Tx: MapTx(TxData)} of each of them
KnownTxs ==
    MapOf([i \in 1..Len(KnownTxData) |-> <<i, MapTx(KnownTxData[i])>>],
          Len(KnownTxData))

TxNames == 1..Len(KnownTxData)

----------------------------------------------------------------------------
(* TxPool, Chain.ValidateTx and txbuilder.FinalizeTx *)

IsTransactionInPool(pl, id) == id \in DOMAIN pl

IsTransactionInErrCache(ec, id) == id \in DOMAIN ec

GetErrCache(ec, id) == IF id \in DOMAIN ec THEN ec[id] ELSE "nil"

AddErrCache(ec, id, err) == (id :> err) @@ ec

\* TxPool.ProcessTransaction for a tx whose inputs resolve: it is admitted
ProcessTransaction(pl, id, statusFail, height, fee, added) ==
    (id :> [Added |-> added, Fee |-> fee, StatusFail |-> statusFail,
            Height |-> height]) @@ pl

RemoveTransaction(pl, id) == [x \in (DOMAIN pl) \ {id} |-> pl[x]] @@ <<>>

\* types.MapBlock(&types.Block{BlockHeader: *bh}): the tip header, no txs
BestBlock == BlockContext(BestBlockHeader.version, FALSE)

\* Chain.ValidateTx, its deferred AddErrCache included
\* Chain.ValidateTx once validation.ValidateTx has returned vs: the error
\* cache is written for a gas-invalid transaction and by the deferred call
ValidatedTx(ec, id, vs) ==
    [acceptable |-> vs.gas.GasValid, gas |-> vs.gas, err |-> vs.err,
     errCache |-> IF ~vs.gas.GasValid THEN AddErrCache(ec, id, vs.err)
                  ELSE IF vs.err # "nil" THEN AddErrCache(ec, id, vs.err)
                  ELSE ec]

\* Chain.ValidateTx, its deferred AddErrCache included
ChainValidateTx(pl, ec, id, gasOrder, nativeFirst) ==
    LET deferred(err) == IF err # "nil" THEN AddErrCache(ec, id, err) ELSE ec
    IN IF IsTransactionInErrCache(ec, id)
       THEN [acceptable |-> FALSE, gas |-> NewGasState,
             err |-> GetErrCache(ec, id),
             errCache |-> deferred(GetErrCache(ec, id))]
       ELSE IF IsTransactionInPool(pl, id)
       THEN [acceptable |-> FALSE, gas |-> NewGasState,
             err |-> "ErrTransactionIsInPool",
             errCache |-> deferred("ErrTransactionIsInPool")]
       ELSE ValidatedTx(ec, id,
                        ValidateTx(KnownTxs[id], BestBlock, support,
                                   StateRootDB, gasOrder, nativeFirst))

\* calculateTxFee(tx) > MaxGasAmount * VMGasRate * 25; the uint64 difference
\* wraps around when the native outputs exceed the native inputs
FeeOverLimit(t) ==
    LET ins == [i \in 1..Len(t.inputs) |->
                   IF t.inputs[i].typ # "coinbase"
                      /\ t.inputs[i].asset = NativeAssetID
                   THEN [asset |-> NativeAssetID, amount |-> t.inputs[i].amount]
                   ELSE [asset |-> "none", amount |-> 0]]
        totalInput == SumAmounts(ins, NativeAssetID, 1)
        totalOutput == SumAmounts(t.outputs, NativeAssetID, 1)
        fee == totalInput - totalOutput
        unit == VMGasRate * 25
    IN IF totalOutput > totalInput THEN TRUE
       ELSE \/ fee \div unit > MaxGasAmount
            \/ fee \div unit = MaxGasAmount /\ fee % unit > 0

\* calls made on the pool facade in one behaviour
MaxCalls == 4

\* the transactions clients submit
Submitted == {4, 5, 8, 9, 11, 12}

TxIdle == txd = EmptyTx /\ blk = BestBlock /\ vres = NoResult

InitPool ==
    /\ TxIdle
    /\ support \in BOOLEAN
    /\ PoolIdle /\ MiningIdle
    /\ ChainIdle

\* txbuilder.FinalizeTx(ctx, c, tx, false)
FinalizeTxCall(id) ==
    /\ calls < MaxCalls
    /\ calls' = calls + 1
    /\ \E d \in {0, 1} : now' = now + d
    /\ evicted' = evicted
    /\ IF FeeOverLimit(KnownTxData[id])
       THEN /\ lastCall' = [op |-> "FinalizeTx", tx |-> id,
                            afterEviction |-> id \in evicted,
                            admitted |-> FALSE, err |-> "ErrExtTxFee"]
            /\ UNCHANGED <<pool, errCache>>
       ELSE \E gasOrder \in Perms(KnownTxs[id].GasInputIDs),
               nativeFirst \in BOOLEAN :
            \E v \in {ChainValidateTx(pool, errCache, id, gasOrder,
                                      nativeFirst)} :
                 /\ errCache' = v.errCache
                 /\ pool' = IF v.acceptable
                            THEN ProcessTransaction(pool, id, v.err # "nil",
                                                    BestBlockHeader.height,
                                                    v.gas.AssetValue, now')
                            ELSE pool
                 /\ lastCall' = [op |-> "FinalizeTx", tx |-> id,
                                 afterEviction |-> id \in evicted,
                                 admitted |-> v.acceptable,
                                 err |-> IF v.acceptable THEN "nil" ELSE v.err]
    /\ UNCHANGED <<calc, chainVars, txVars, support, mining, blockVars>>

\* TxPool.RemoveTransaction(id) of an admitted transaction
RemoveTransactionCall(id) ==
    /\ calls < MaxCalls
    /\ calls' = calls + 1
    /\ IsTransactionInPool(pool, id)
    /\ pool' = RemoveTransaction(pool, id)
    /\ evicted' = evicted \cup {id}
    /\ lastCall' = [op |-> "RemoveTransaction", tx |-> id,
                    afterEviction |-> FALSE, admitted |-> FALSE, err |-> "nil"]
    /\ UNCHANGED <<calc, chainVars,
                   errCache, now, txVars, support, mining, blockVars>>

Submit == \E id \in Submitted : FinalizeTxCall(id)

Remove == \E id \in Submitted : RemoveTransactionCall(id)

NextPool == Submit \/ Remove

SpecPool == InitPool /\ [][NextPool]_vars

----------------------------------------------------------------------------
(* mining.NewBlockTemplate *)

\* transactions in the pool when a template is assembled
MaxPool == 3

\* admission times of pool transactions: equal ones and different ones
AddedTimes == {0, 1}

\* the TxDescs FinalizeTx can leave in the pool for transaction id
Admission(id, added) ==
    {ProcessTransaction(EmptyPool, id, v.err # "nil", BestBlockHeader.height,
                        v.gas.AssetValue, added)[id] :
        v \in {w \in {ChainValidateTx(EmptyPool, EmptyPool, id, gasOrder,
                                      nativeFirst) :
                        gasOrder \in Perms(KnownTxs[id].GasInputIDs),
                        nativeFirst \in BOOLEAN} :
                 w.acceptable /\ ~FeeOverLimit(KnownTxData[id])}}

\* the transactions the pool is filled from
Minable == {1, 2, 3, 5, 6, 7, 8, 9, 10}

\* for each of them, the TxDescs it can have in the pool
AdmissionTable ==
    MapOf([i \in TxNames |->
              <<i, UNION {Admission(i, t) : t \in AddedTimes}>>],
          Len(KnownTxData))

RECURSIVE PoolsOver(_, _)
PoolsOver(table, ids) ==
    IF ids = {} THEN {EmptyPool}
    ELSE LET id == CHOOSE x \in ids : TRUE
             rest == PoolsOver(table, ids \ {id})
         IN rest \cup {(id :> d) @@ pl : d \in table[id], pl \in rest}

\* the pools that admissions at the chain tip can have built
AdmittedPools ==
    {pl \in PoolsOver(AdmissionTable, Minable) :
        Cardinality(DOMAIN pl) <= MaxPool}

\* the outputs the known transactions spend
KnownPrevouts == UNION {KnownTxs[id].SpentOutputIDs : id \in TxNames}

\* the asset-A prevout of FailingTx
FailingPrevout == PrevoutID(KnownTxData[5].inputs[2])

\* the unspent outputs of the store when the pool is pl: all the known ones,
\* or, when it matters to pl, all but one the tip has spent
UtxoStores(pl) ==
    {KnownPrevouts} \cup
    {KnownPrevouts \ {o} :
        o \in {FailingPrevout} \cap
              UNION {KnownTxs[id].SpentOutputIDs : id \in DOMAIN pl}}

\* sort.Sort(byTime(txs)): Added ascending, equal times in any order
SortedOrders(pl) ==
    {s \in Perms(DOMAIN pl) :
        \A i \in 1..(Len(s) - 1) : pl[s[i]].Added <= pl[s[i + 1]].Added}

\* store.GetTransactionsUtxo(view, txs): every input resolves
GetTransactionsUtxo(utxos, tx) == tx.SpentOutputIDs \subseteq utxos

\* UtxoViewpoint.ApplyTransaction: the outputs it marks spent (the native ones
\* only for a gas-only transaction); an output already spent is an error
ApplyTransaction(view, tx, statusFail) ==
    LET spends == {o \in tx.SpentOutputIDs :
                      ~statusFail \/ tx.Entries[o].asset = NativeAssetID}
    IN [err |-> IF spends \cap view # {} THEN "utxo already spent" ELSE "nil",
        view |-> view \cup spends]


\* the coinbase scripts and arbitrary data of the miner: no account manager,
\* or one with a control program and 0 or 127 bytes of arbitrary data
Miners ==
    {[manager |-> FALSE, script |-> DefaultCoinbaseProgram, arbitrary |-> 0],
     [manager |-> TRUE, script |-> P2WSHProgram("h2"), arbitrary |-> 0],
     [manager |-> TRUE, script |-> P2WSHProgram("h2"), arbitrary |-> 127]}

\* len(strconv.FormatUint(n, 10))
RECURSIVE DecimalLen(_)
DecimalLen(n) == IF n < 10 THEN 1 ELSE 1 + DecimalLen(n \div 10)

\* txbuilder: NewBuilder, AddInput, AddOutput, Build
Build(inputs, outputs) == TxData(1, 0, 0, inputs, outputs)

CoinbaseAmountSubsidyOnly(amount, blockHeight) == BlockSubsidy(blockHeight)

\* amount += consensus.BlockSubsidy(blockHeight)
CoinbaseAmount(amount, blockHeight) == Add64(amount, BlockSubsidy(blockHeight))

\* mining.createCoinbaseTx
createCoinbaseTx(accountManager, amount, blockHeight) ==
    LET total == ToInt(CoinbaseAmount(Uint64(amount), Uint64(blockHeight)))
        arbitrary == 1 + DecimalLen(blockHeight)
                     + (IF accountManager.manager
                        THEN accountManager.arbitrary ELSE 0)
        script == IF accountManager.manager THEN accountManager.script
                  ELSE DefaultCoinbaseProgram
        txData == Build(<<[CoinbaseInput EXCEPT !.arbLen = arbitrary]>>,
                        <<TxOutput(NativeAssetID, total, script)>>)
    IN IF arbitrary > CoinbaseArbitrarySizeLimit
       THEN [err |-> "ErrCoinbaseArbitraryOversize", tx |-> EmptyTx]
       ELSE [err |-> "nil", tx |-> [txData EXCEPT !.size = 100]]

\* the block the template validates in: types.Block has version 1, but the
\* bc.Block handed to ValidateTx carries only the height
TemplateBlock(first) == BlockContext(0, first)


InitMining ==
    /\ TxIdle
    /\ ChainIdle
    /\ support \in BOOLEAN
    /\ pool \in AdmittedPools
    /\ errCache = EmptyPool /\ now = 0 /\ evicted = {}
    /\ lastCall = NoCall /\ calls = 0
    /\ \E utxos \in UtxoStores(pool) : mining = [NoMining EXCEPT !.utxos = utxos]
    /\ cand = NoCandidate /\ verdict = NoVerdict

\* NewBlockTemplate up to the loop: the sorted snapshot of the pool, the empty
\* view and the state at the best header's StateRoot
TemplateBegin ==
    /\ mining.pc = "idle"
    /\ \E txs \in SortedOrders(pool) :
         mining' = [mining EXCEPT
                       !.pc = IF txs = <<>> THEN "coinbase" ELSE "loop",
                       !.snapshot = pool, !.queue = txs, !.view = {},
                       !.stateDB = StateRootDB, !.gasUsed = 0, !.txFee = 0,
                       !.included = <<>>]
    /\ UNCHANGED <<calc, chainVars, txVars, support, poolVars, blockVars>>

SkipTxNever(err, gasStatus) == FALSE

\* if err != nil { if !gasStatus.GasValid { ... continue } }
SkipTx(err, gasStatus) == err # "nil" /\ ~gasStatus.GasValid

OverBlockGasNever(gasUsed, gasStatus) == FALSE

OverBlockGasAlways(gasUsed, gasStatus) == TRUE

\* if gasUsed+uint64(gasStatus.GasUsed) > consensus.MaxBlockGas { break }
OverBlockGas(gasUsed, gasStatus) ==
    gasUsed + gasStatus.GasUsed > MaxBlockGas


\* one iteration of "for _, txDesc := range txs"
TemplateTx ==
    /\ mining.pc = "loop"
    /\ UNCHANGED <<calc, chainVars,
                   txVars, support, errCache, now, lastCall, calls, blockVars>>
    /\ \E tx \in {KnownTxs[Head(mining.queue)]} :
       LET id == Head(mining.queue)
           txDesc == mining.snapshot[id]
           rest == Tail(mining.queue)
           next == IF rest = <<>> THEN "coinbase" ELSE "loop"
       IN
       IF ~GetTransactionsUtxo(mining.utxos, tx)
       THEN /\ pool' = RemoveTransaction(pool, id)
            /\ evicted' = evicted \cup {id}
            /\ mining' = [mining EXCEPT
                  !.pc = next, !.queue = rest,
                  !.step = [tx |-> id, err |-> "utxo missing",
                            gas |-> NewGasState, outcome |-> "evicted",
                            before |-> mining.stateDB,
                            touched |-> mining.stateDB,
                            after |-> mining.stateDB]]
       ELSE
       \E gasOrder \in Perms(tx.GasInputIDs), nativeFirst \in BOOLEAN :
       \E vs \in {ValidateTx(tx, TemplateBlock(FALSE), support, mining.stateDB,
                             gasOrder, nativeFirst)} :
         LET revision == mining.stateDB
             gasStatus == vs.gas
             gasOnlyTx == vs.err # "nil"
             applied == ApplyTransaction(mining.view, tx, gasOnlyTx)
             gasUsed == mining.gasUsed + gasStatus.GasUsed
             step(outcome, db) ==
                 [tx |-> id, err |-> vs.err, gas |-> gasStatus,
                  outcome |-> outcome, before |-> revision, touched |-> vs.db,
                  after |-> db]
         IN
         IF SkipTx(vs.err, gasStatus)
         THEN /\ pool' = RemoveTransaction(pool, id)
              /\ evicted' = evicted \cup {id}
              /\ mining' = [mining EXCEPT
                    !.pc = next, !.queue = rest, !.stateDB = revision,
                    !.step = step("evicted", revision)]
         ELSE IF OverBlockGas(mining.gasUsed, gasStatus)
         THEN /\ UNCHANGED <<pool, evicted>>
              /\ mining' = [mining EXCEPT
                    !.pc = "coinbase", !.stateDB = vs.db,
                    !.step = step("break", vs.db)]
         ELSE IF applied.err # "nil"
         THEN /\ pool' = RemoveTransaction(pool, id)
              /\ evicted' = evicted \cup {id}
              /\ mining' = [mining EXCEPT
                    !.pc = next, !.queue = rest, !.stateDB = revision,
                    !.step = step("evicted", revision)]
         ELSE LET db == IF gasOnlyTx THEN revision ELSE vs.db IN
              /\ UNCHANGED <<pool, evicted>>
              /\ mining' = [mining EXCEPT
                    !.pc = IF gasUsed = MaxBlockGas THEN "coinbase" ELSE next,
                    !.queue = rest, !.view = applied.view, !.stateDB = db,
                    !.gasUsed = gasUsed,
                    !.txFee = mining.txFee + txDesc.Fee,
                    !.included = Append(mining.included,
                                        [tx |-> id, gasOnly |-> gasOnlyTx,
                                         gas |-> gasStatus,
                                         fee |-> txDesc.Fee]),
                    !.step = step("included", db)]

\* NewBlockTemplate after the loop: the coinbase transaction, its validation
\* when balances live in the state DB, and the state root
TemplateFinish ==
    /\ mining.pc = "coinbase"
    /\ UNCHANGED <<calc, chainVars, txVars, support, poolVars, blockVars>>
    /\ \E accountManager \in Miners :
       \E cb \in {createCoinbaseTx(accountManager, mining.txFee,
                                   BestBlockHeader.height + 1)} :
       \E vs \in {ValidateTx(MapTx(cb.tx), TemplateBlock(TRUE), support,
                             mining.stateDB, <<>>, TRUE)} :
         LET nextBlockHeight == BestBlockHeader.height + 1
             err == IF cb.err # "nil" THEN cb.err
                    ELSE IF support THEN vs.err
                    ELSE "nil"
             stateDB == IF cb.err = "nil" /\ support
                        THEN vs.db ELSE mining.stateDB
         IN mining' =
              IF err # "nil"
              THEN [mining EXCEPT !.pc = "failed", !.err = err]
              ELSE [mining EXCEPT
                       !.pc = "done", !.stateDB = stateDB,
                       !.block =
                          [Version |-> 1, Height |-> nextBlockHeight,
                           coinbase |-> <<cb.tx>>,
                           txs |-> [i \in 1..Len(mining.included) |->
                                       mining.included[i].tx],
                           status |-> <<FALSE>> \o
                                      [i \in 1..Len(mining.included) |->
                                          mining.included[i].gasOnly],
                           StateRoot |-> stateDB]]

NextMining == TemplateBegin \/ TemplateTx \/ TemplateFinish

SpecMining == InitMining /\ [][NextMining]_vars

----------------------------------------------------------------------------
(* consensus.BlockSubsidy and mining.createCoinbaseTx on their own *)

\* block heights: the genesis block, low ones, the ones of
\* TestCreateCoinbaseTx, 2^32, 2^63 and the two highest
HeightChoices ==
    {Uint64(0), Uint64(1), Uint64(5), Uint64(839999), Uint64(840000),
     Uint64(840001), Uint64(1680000), <<0, 1, 0, 0>>, <<2 ^ 15, 0, 0, 0>>,
     Sub64(Not64(Uint64(0)), Uint64(1)), Not64(Uint64(0))}

\* fee totals: the ones of TestCreateCoinbaseTx and the highest
FeeChoices ==
    {Uint64(0), Uint64(100000000), Uint64(2000000000), Not64(Uint64(0))}

InitSubsidy ==
    /\ TxIdle
    /\ support = FALSE
    /\ PoolIdle /\ MiningIdle /\ NoGoroutines
    /\ calc \in {[NoCalc EXCEPT !.height = h, !.fee = f] :
                    h \in HeightChoices, f \in FeeChoices}

\* consensus.BlockSubsidy(height)
BlockSubsidyCall ==
    /\ calc.subsidy = <<>>
    /\ calc' = [calc EXCEPT !.subsidy = BlockSubsidy(calc.height)]
    /\ UNCHANGED <<chainVars, txVars, support, poolVars, mining, blockVars>>

\* createCoinbaseTx(nil, fee, height): the amount it pays and, when the
\* numbers have at most 31 bits, the transaction it builds
CreateCoinbaseTxCall ==
    /\ calc.total = <<>>
    /\ \E amount \in {CoinbaseAmount(calc.fee, calc.height)} :
         calc' = [calc EXCEPT
                     !.total = amount,
                     !.coinbase =
                        IF FitsInt(calc.fee) /\ FitsInt(calc.height)
                           /\ FitsInt(amount)
                        THEN createCoinbaseTx(
                                 [manager |-> FALSE,
                                  script |-> DefaultCoinbaseProgram,
                                  arbitrary |-> 0],
                                 ToInt(calc.fee), ToInt(calc.height))
                        ELSE NoCoinbase]
    /\ UNCHANGED <<chainVars, txVars, support, poolVars, mining, blockVars>>

NextSubsidy == BlockSubsidyCall \/ CreateCoinbaseTxCall

SpecSubsidy == InitSubsidy /\ [][NextSubsidy]_vars

----------------------------------------------------------------------------
(* the op-deposit and op-withdraw programs on their own *)

\* version and vmType operands: the supported 0 0, and a version of 1
HybridOperands == {<<"OP_0", "OP_0">>, <<"OP_1", "OP_0">>}

\* the program with these operands in place of those of prog
WithOperands(prog, ops) ==
    [prog EXCEPT !.insts[1].op = ops[1], !.insts[2].op = ops[2]]

\* amounts deposited or withdrawn, around the balances of AccountStates
VaabAmounts == {0, 500, 501}

\* the entry of type typ in the transaction
EntryOfType(tx, typ) ==
    tx.Entries[CHOOSE id \in DOMAIN tx.Entries : tx.Entries[id].typ = typ]

\* Withdrawal entries with an op-withdraw program
WithdrawalEntries ==
    {EntryOfType(
         MapTx(TxData(1, 100, 0,
                      <<TxInput("withdrawal", asset, amount, P2WSHProgram("h2"),
                                WithOperands(WithdrawProgram(addr), ops),
                                "none", TRUE, 1000)>>,
                      <<>>)), "withdrawal") :
        asset \in {NativeAssetID, "A"}, amount \in VaabAmounts,
        addr \in {"h1", "h2"}, ops \in HybridOperands}

\* Deposit entries with an op-deposit program
DepositEntries ==
    {EntryOfType(
         MapTx(TxData(1, 100, 0,
                      <<SpendInput(asset, amount, "s2", TRUE, 1000)>>,
                      <<TxOutput(asset, amount,
                                 WithOperands(DepositProgram(addr), ops))>>)),
         "deposit") :
        asset \in {NativeAssetID, "A"}, amount \in VaabAmounts,
        addr \in {"h1", "h2"}, ops \in HybridOperands}

\* account states: h1 holds 0, 499 or 500
AccountStates ==
    {[a \in Addresses |-> IF a = "h1" THEN b ELSE 0] : b \in {0, 499, 500}}

\* validation states a program runs in: gas-valid, with no gas left or plenty
VaabStates ==
    {[gas |-> [NewGasState EXCEPT !.GasLeft = g, !.GasValid = TRUE],
      cache |-> EmptyCache, db |-> db, log |-> <<>>, err |-> "nil"] :
        g \in {0, 100000}, db \in AccountStates}

InitVaab ==
    /\ TxIdle
    /\ support = TRUE
    /\ PoolIdle /\ MiningIdle /\ NoGoroutines
    /\ calc \in {[op |-> "opWithdraw", entry |-> e, st |-> st, ran |-> FALSE,
                   out |-> st] : e \in WithdrawalEntries, st \in VaabStates}
               \cup
               {[op |-> "opDeposit", entry |-> e, st |-> st, ran |-> FALSE,
                   out |-> st] : e \in DepositEntries, st \in VaabStates}

\* vm.Verify on the WithdrawProgram of a Withdrawal entry
OpWithdrawCall ==
    /\ calc.op = "opWithdraw" /\ ~calc.ran
    /\ calc' = [calc EXCEPT !.ran = TRUE,
                            !.out = RunOpWithdraw(calc.st, calc.entry)]
    /\ UNCHANGED <<chainVars, txVars, support, poolVars, mining, blockVars>>

\* vm.Verify on the ControlProgram of a Deposit entry
OpDepositCall ==
    /\ calc.op = "opDeposit" /\ ~calc.ran
    /\ calc' = [calc EXCEPT !.ran = TRUE,
                            !.out = RunOpDeposit(calc.st, calc.entry)]
    /\ UNCHANGED <<chainVars, txVars, support, poolVars, mining, blockVars>>

NextVaab == OpWithdrawCall \/ OpDepositCall

SpecVaab == InitVaab /\ [][NextVaab]_vars

----------------------------------------------------------------------------
(* the best node of the Chain: setState, BlockWaiter and the BestBlock      *)
(* readers, as goroutines that take one step at a time                      *)

\* setState calls of one run
MaxPromotions == 2

\* the nodes setState can be handed: two blocks on the tip, one on them
NodeChoices ==
    {BlockNode(5, "n5"), BlockNode(5, "m5"), BlockNode(6, "n6")}

\* the nodes of successive setState calls: the best height never goes down
PromotionSeqs ==
    {q \in DistinctSeqs(NodeChoices, MaxPromotions) :
        \A i \in 1..(Len(q) - 1) : q[i].Height <= q[i + 1].Height}

\* the goroutine that connects blocks, and the goroutines of the callers
Goroutines == {"g1", "g2"}

Goroutine(op, pc, height, nodes) ==
    [op |-> op, pc |-> pc, height |-> height, nodes |-> nodes,
     node |-> TipNode, listed |-> FALSE, waits |-> 0, ch |-> 0,
     ret |-> BlockNode(0, "none")]

\* the calls of the callers: BlockWaiter at a few heights, and the readers
CallChoices ==
    {Goroutine("BlockWaiter", "lock", h, <<>>) : h \in {4, 5, 6, 7}}
    \cup {Goroutine(op, "lock", 0, <<>>) :
             op \in {"BestBlockHeight", "BestBlockHash", "BestBlockInfo"}}
    \cup {Goroutine("BestBlockHeader", "index", 0, <<>>)}

InitChain ==
    /\ TxIdle
    /\ support = FALSE
    /\ PoolIdle /\ MiningIdle
    /\ calc = NoCalc
    /\ bestNode = TipNode /\ mainChain = TipNode /\ mu = "none"
    /\ \E q \in PromotionSeqs, c1 \in CallChoices, c2 \in CallChoices :
         procs = ("chain" :> Goroutine("setState", "idle", 0, q))
                 @@ ("g1" :> c1) @@ ("g2" :> c2)

\* what no step of a goroutine changes
ChainFrame == UNCHANGED <<calc, txVars, support, poolVars, mining, blockVars>>

\* where a goroutine is once c.cond.L.Lock() has returned
AfterLock(g) ==
    CASE g.op = "setState" -> "setMainChain"
      [] g.op = "BlockWaiter" -> "check"
      [] OTHER -> "read"

\* setState up to the lock: c.store.SaveChainStatus(node, view), whose error
\* ends the call
SaveChainStatus(p) ==
    /\ procs[p].op = "setState" /\ procs[p].pc = "idle"
    /\ procs[p].nodes # <<>>
    /\ \E saved \in BOOLEAN :
         procs' = [procs EXCEPT ![p].pc = IF saved THEN "lock" ELSE "idle",
                                ![p].node = Head(procs[p].nodes),
                                ![p].nodes = Tail(procs[p].nodes)]
    /\ UNCHANGED <<bestNode, mainChain, mu>>
    /\ ChainFrame

\* c.cond.L.Lock(), also the one that ends cond.Wait()
Lock(p) ==
    /\ procs[p].pc = "lock"
    /\ mu = "none"
    /\ mu' = p
    /\ procs' = [procs EXCEPT ![p].pc = AfterLock(procs[p])]
    /\ UNCHANGED <<bestNode, mainChain>>
    /\ ChainFrame

\* c.cond.L.Unlock(), deferred to the end of the call
Unlock(p) ==
    /\ procs[p].pc = "unlock"
    /\ mu' = "none"
    /\ procs' = [procs EXCEPT
                    ![p].pc = IF procs[p].op = "setState" THEN "idle"
                              ELSE "done"]
    /\ UNCHANGED <<bestNode, mainChain>>
    /\ ChainFrame

\* c.index.SetMainChain(node)
SetMainChain(p) ==
    /\ procs[p].pc = "setMainChain"
    /\ mainChain' = procs[p].node
    /\ procs' = [procs EXCEPT ![p].pc = "setBestNode"]
    /\ UNCHANGED <<bestNode, mu>>
    /\ ChainFrame

\* c.bestNode = node
SetBestNode(p) ==
    /\ procs[p].pc = "setBestNode"
    /\ bestNode' = procs[p].node
    /\ procs' = [procs EXCEPT ![p].pc = "broadcast"]
    /\ UNCHANGED <<mainChain, mu>>
    /\ ChainFrame

BroadcastNone(gs, p) == [gs EXCEPT ![p].pc = "unlock"]

\* c.cond.Broadcast() by p: every goroutine on the notify list leaves it
Broadcast(gs, p) ==
    [q \in DOMAIN gs |->
        IF q = p THEN [gs[q] EXCEPT !.pc = "unlock"]
        ELSE [gs[q] EXCEPT !.listed = FALSE]]

CondBroadcast(p) ==
    /\ procs[p].pc = "broadcast"
    /\ procs' = Broadcast(procs, p)
    /\ UNCHANGED <<bestNode, mainChain, mu>>
    /\ ChainFrame

HeightBelowNever(node, height) == FALSE

\* c.bestNode.Height < height
HeightBelow(node, height) == node.Height < height

\* for c.bestNode.Height < height
CheckHeight(p) ==
    /\ procs[p].pc = "check"
    /\ procs' = [procs EXCEPT
                    ![p].pc = IF HeightBelow(bestNode, procs[p].height)
                              THEN "wait" ELSE "send"]
    /\ UNCHANGED <<bestNode, mainChain, mu>>
    /\ ChainFrame

\* c.cond.Wait(), first half: the goroutine joins the notify list, then
\* unlocks c.cond.L
CondWait(p) ==
    /\ \/ /\ procs[p].pc = "wait"
          /\ procs' = [procs EXCEPT ![p].pc = "waitUnlock",
                                    ![p].listed = TRUE,
                                    ![p].waits = @ + 1]
          /\ UNCHANGED mu
       \/ /\ procs[p].pc = "waitUnlock"
          /\ procs' = [procs EXCEPT ![p].pc = "parked"]
          /\ mu' = "none"
    /\ UNCHANGED <<bestNode, mainChain>>
    /\ ChainFrame

\* c.cond.Wait(), second half: off the notify list, the goroutine goes for
\* the lock again
CondWake(p) ==
    /\ procs[p].pc = "parked"
    /\ ~procs[p].listed
    /\ procs' = [procs EXCEPT ![p].pc = "lock"]
    /\ UNCHANGED <<bestNode, mainChain, mu>>
    /\ ChainFrame

\* ch <- struct{}{}
Send(p) ==
    /\ procs[p].pc = "send"
    /\ procs[p].ch < 1
    /\ procs' = [procs EXCEPT ![p].pc = "unlock", ![p].ch = @ + 1]
    /\ UNCHANGED <<bestNode, mainChain, mu>>
    /\ ChainFrame

\* BestBlockHeight, BestBlockHash, BestBlockInfo: what they return comes from
\* c.bestNode
ReadBestNode(p) ==
    /\ procs[p].pc = "read"
    /\ procs' = [procs EXCEPT ![p].pc = "unlock", ![p].ret = bestNode]
    /\ UNCHANGED <<bestNode, mainChain, mu>>
    /\ ChainFrame

\* BestBlockHeader: c.index.BestNode().BlockHeader()
ReadIndex(p) ==
    /\ procs[p].pc = "index"
    /\ procs' = [procs EXCEPT ![p].pc = "done", ![p].ret = mainChain]
    /\ UNCHANGED <<bestNode, mainChain, mu>>
    /\ ChainFrame

\* the steps of goroutine p
GoStep(p) ==
    \/ SaveChainStatus(p) \/ Lock(p) \/ Unlock(p)
    \/ SetMainChain(p) \/ SetBestNode(p) \/ CondBroadcast(p)
    \/ CheckHeight(p) \/ CondWait(p) \/ CondWake(p) \/ Send(p)
    \/ ReadBestNode(p) \/ ReadIndex(p)

NextChain == \E p \in {"chain"} \cup Goroutines : GoStep(p)

SpecChain == InitChain /\ [][NextChain]_vars

\* the scheduler runs every goroutine that can take a step, and a goroutine
\* waiting for c.cond.L gets it once it is free
SpecChainFair ==
    SpecChain /\ \A p \in {"chain"} \cup Goroutines : WF_vars(GoStep(p))

----------------------------------------------------------------------------
(* validation.ValidateBlock *)

\* transactions of a candidate block after its first
MaxBlockTxs == 3

\* errors.Wrapf(err, ...): a nil error stays nil
Wrapf(err) == err

\* the transactions blocks are made of: both BigTx, BigFailingTx,
\* CoinbaseInputTx, UnsignedTx and the transaction without inputs and outputs
BlockTxChoices ==
    {KnownTxData[1], KnownTxData[2], KnownTxData[3], KnownTxData[8],
     KnownTxData[9], EmptyTx}

\* what the native inputs of t exceed its native outputs by
NativeSurplus(t) ==
    LET ins == [i \in 1..Len(t.inputs) |->
                   IF t.inputs[i].typ # "coinbase"
                      /\ t.inputs[i].asset = NativeAssetID
                   THEN [asset |-> NativeAssetID, amount |-> t.inputs[i].amount]
                   ELSE [asset |-> "none", amount |-> 0]]
    IN SumAmounts(ins, NativeAssetID, 1)
       - SumAmounts(t.outputs, NativeAssetID, 1)

\* the native value of the inputs of t: what t pays when it fails after its
\* gas inputs and is kept as a gas-only transaction
NativeInputs(t) == NativeSurplus(t) + SumAmounts(t.outputs, NativeAssetID, 1)

\* the totals of the fees of txs[1..n], each paying its surplus or, as a
\* gas-only transaction, all its native inputs
RECURSIVE FeeTotals(_, _)
FeeTotals(txs, n) ==
    IF n = 0 THEN {0}
    ELSE {a + b : a \in {NativeSurplus(txs[n]), NativeInputs(txs[n])},
                  b \in FeeTotals(txs, n - 1)}

\* the fee totals a miner writes into the coinbase of a block with these
\* transactions: none, theirs, or theirs and 1,000 more
ClaimedFees(txs) ==
    {0} \cup UNION {IF fees <= 2147483647 - baseSubsidy - 1000
                    THEN {fees, fees + 1000} ELSE {1000} :
                       fees \in FeeTotals(txs, Len(txs))}

\* version, height and seal of a header on the tip: fine, a later version,
\* an earlier version, a wrong height, no proof of work
HeaderChoices ==
    {<<1, 5, "nil">>, <<2, 5, "nil">>, <<0, 5, "nil">>, <<1, 6, "nil">>,
     <<1, 5, "errWorkProof">>}

\* the commitment of the header, if any, that validation will not recompute
CommitChoices == {"nil", "transaction id merkle root",
                  "transaction status merkle root", "state root"}

\* the transactions of a candidate: no coinbase transaction, or one claiming
\* some fees, before transactions of BlockTxChoices
CandidateTransactions ==
    UNION {
      {first \o rest :
          first \in {<<>>} \cup
                    {<<createCoinbaseTx([manager |-> FALSE,
                                         script |-> DefaultCoinbaseProgram,
                                         arbitrary |-> 0], fees,
                                        BestBlockHeader.height + 1).tx>> :
                        fees \in ClaimedFees(rest)}} :
      rest \in DistinctSeqs(BlockTxChoices, MaxBlockTxs)}

CandidateBlocks ==
    {[Version |-> h[1], Height |-> h[2], seal |-> h[3],
      Transactions |-> txs, commits |-> c] :
        h \in HeaderChoices, c \in CommitChoices,
        txs \in CandidateTransactions}

InitBlock ==
    /\ TxIdle
    /\ support \in BOOLEAN
    /\ PoolIdle
    /\ ChainIdle
    /\ mining = NoMining
    /\ cand \in CandidateBlocks
    /\ verdict = NoVerdict

\* validation.ValidateBlockHeader; the checks of bits, previous block id,
\* timestamp and proof of work are the seal of the candidate
ValidateBlockHeader(b, parent) ==
    IF b.Version < parent.version THEN "errVersionRegression"
    ELSE IF b.Height # parent.height + 1 THEN "errMisorderedBlockHeight"
    ELSE b.seal

RECURSIVE SumSeq(_, _)
SumSeq(q, n) == IF n = 0 THEN 0 ELSE q[n] + SumSeq(q, n - 1)

\* types.MapBlock: the transactions of the block as bc.Tx
MapBlock(b) ==
    [Transactions |-> [i \in 1..Len(b.Transactions) |-> MapTx(b.Transactions[i])]]

\* validation.checkCoinbaseAmount on the mapped block
checkCoinbaseAmount(b, amount) ==
    IF Len(b.Transactions) = 0 THEN "ErrWrongCoinbaseTransaction"
    ELSE LET tx == b.Transactions[1] IN
         IF Len(tx.ResultIds) = 0 THEN "index out of range"
         ELSE LET output == tx.Entries[tx.ResultIds[1]] IN
              IF output.typ # "output" THEN "ErrEntryType"
              ELSE IF output.sources[1].amount # amount
              THEN "ErrWrongCoinbaseTransaction"
              ELSE "nil"

\* ValidateBlock up to its loop over the transactions
BlockBegin ==
    /\ verdict.pc = "idle"
    /\ cand # NoCandidate
    /\ LET err == ValidateBlockHeader(cand, BestBlockHeader) IN
       verdict' = IF err # "nil"
                  THEN [verdict EXCEPT !.pc = "rejected", !.err = err]
                  ELSE [verdict EXCEPT
                           !.pc = IF cand.Transactions = <<>>
                                  THEN "final" ELSE "txs",
                           !.i = 1, !.stateDB = StateRootDB]
    /\ UNCHANGED <<calc, chainVars, txVars, support, poolVars, mining, cand>>

\* one iteration of "for i, tx := range b.Transactions"
BlockTx ==
    /\ verdict.pc = "txs"
    /\ UNCHANGED <<calc, chainVars, txVars, support, poolVars, mining, cand>>
    /\ \E tx \in {MapTx(cand.Transactions[verdict.i])} :
       LET i == verdict.i
           b == [version |-> cand.Version, height |-> cand.Height,
                 first |-> i = 1]
           revision == verdict.stateDB
       IN
       \E gasOrder \in Perms(tx.GasInputIDs), nativeFirst \in BOOLEAN :
       \E vs \in {ValidateTx(tx, b, support, verdict.stateDB, gasOrder,
                             nativeFirst)} :
         LET gasStatus == vs.gas
             gasOnlyTx == vs.err # "nil"
             blockGasSum == verdict.blockGasSum + gasStatus.GasUsed
             seen == [verdict EXCEPT
                         !.gasValid = Append(verdict.gasValid,
                                             gasStatus.GasValid)]
         IN
         verdict' =
           IF ~gasStatus.GasValid
           THEN [seen EXCEPT
                    !.pc = IF Wrapf(vs.err) = "nil"
                           THEN "accepted" ELSE "rejected",
                    !.err = Wrapf(vs.err), !.stateDB = vs.db]
           ELSE LET kept == [seen EXCEPT
                    !.stateDB = IF gasOnlyTx THEN revision ELSE vs.db,
                    !.status = Append(verdict.status, gasOnlyTx),
                    !.assetValues = Append(verdict.assetValues,
                                           gasStatus.AssetValue),
                    !.blockGasSum = blockGasSum]
                IN IF blockGasSum > MaxBlockGas
                   THEN [kept EXCEPT !.pc = "rejected",
                                     !.err = "errOverBlockLimit"]
                   ELSE [kept EXCEPT
                            !.i = i + 1,
                            !.pc = IF i = Len(cand.Transactions)
                                   THEN "final" ELSE "txs"]

\* the comparisons of the computed merkle roots and state root with the ones
\* of the header: a header that carries the status flags and the state root
\* its maker computed has them compared (its transaction root is the root of
\* its transactions), another one names the commitment that differs
CommitmentErr(b, status, stateDB) ==
    IF "header" \in DOMAIN b
    THEN IF status # b.header.status \/ stateDB # b.header.StateRoot
         THEN "errMismatchedMerkleRoot" ELSE "nil"
    ELSE IF b.commits # "nil" THEN "errMismatchedMerkleRoot" ELSE "nil"

\* ValidateBlock after the loop: the coinbase amount, the merkle roots and
\* the state root
BlockFinish ==
    /\ verdict.pc = "final"
    /\ UNCHANGED <<calc, chainVars, txVars, support, poolVars, mining, cand>>
    /\ LET coinbaseAmount ==
               ToInt(BlockSubsidy(Uint64(cand.Height)))
               + SumSeq(verdict.assetValues, Len(verdict.assetValues))
       IN \E amountErr \in {checkCoinbaseAmount(MapBlock(cand),
                                                 coinbaseAmount)} :
          LET err == IF amountErr # "nil" THEN amountErr
                     ELSE CommitmentErr(cand, verdict.status, verdict.stateDB)
          IN verdict' = [verdict EXCEPT
                            !.pc = IF err = "nil" THEN "accepted" ELSE "rejected",
                            !.err = err]

NextBlock == BlockBegin \/ BlockTx \/ BlockFinish

SpecBlock == InitBlock /\ [][NextBlock]_vars

----------------------------------------------------------------------------
(* a block template, sealed and handed to ValidateBlock on the same tip *)

\* the miner solves the proof of work of the template and the block comes
\* back to validation, with the parent and the parent state it was built on
SubmitBlock ==
    /\ mining.pc = "done"
    /\ cand = NoCandidate
    /\ cand' = [Version |-> mining.block.Version,
                Height |-> mining.block.Height,
                seal |-> "nil",
                Transactions |->
                   mining.block.coinbase \o
                   [i \in 1..Len(mining.block.txs) |->
                       KnownTxData[mining.block.txs[i]]],
                commits |-> "nil",
                header |-> [status |-> mining.block.status,
                            StateRoot |-> mining.block.StateRoot]]
    /\ UNCHANGED <<calc, chainVars, txVars, support, poolVars, mining, verdict>>

NextRoundTrip ==
    \/ TemplateBegin \/ TemplateTx \/ TemplateFinish
    \/ SubmitBlock
    \/ BlockBegin \/ BlockTx \/ BlockFinish

SpecRoundTrip == InitMining /\ [][NextRoundTrip]_vars

----------------------------------------------------------------------------
(* txbuilder.TemplateBuilder: its time bounds *)

\* calls made on one builder
MaxBuilderCalls == 3

\* the latest instant of a run; instant 0 is the zero time.Time
MaxInstant == 4

Instants == 0..MaxInstant

\* NewBuilder(maxTime)
NewBuilder(maxTime) == [minTime |-> 0, maxTime |-> maxTime]

\* b.RestrictMinTime(t)
RestrictMinTime(b, t) == IF t > b.minTime THEN [b EXCEPT !.minTime = t] ELSE b

RestrictMaxTimeAssign(b, t) == [b EXCEPT !.maxTime = t]

\* b.RestrictMaxTime(t)
RestrictMaxTime(b, t) == IF t < b.maxTime THEN [b EXCEPT !.maxTime = t] ELSE b

InitBuilder ==
    /\ TxIdle
    /\ support = FALSE
    /\ PoolIdle /\ MiningIdle /\ NoGoroutines
    /\ calc \in {[b |-> NewBuilder(t), first |-> t, n |-> 0,
                   last |-> [op |-> "NewBuilder", t |-> t]] : t \in Instants}

RestrictMaxTimeCall ==
    /\ calc.n < MaxBuilderCalls
    /\ \E t \in Instants :
         calc' = [calc EXCEPT !.b = RestrictMaxTime(calc.b, t),
                              !.n = @ + 1,
                              !.last = [op |-> "RestrictMaxTime", t |-> t]]
    /\ UNCHANGED <<chainVars, txVars, support, poolVars, mining, blockVars>>

RestrictMinTimeCall ==
    /\ calc.n < MaxBuilderCalls
    /\ \E t \in Instants :
         calc' = [calc EXCEPT !.b = RestrictMinTime(calc.b, t),
                              !.n = @ + 1,
                              !.last = [op |-> "RestrictMinTime", t |-> t]]
    /\ UNCHANGED <<chainVars, txVars, support, poolVars, mining, blockVars>>

NextBuilder == RestrictMaxTimeCall \/ RestrictMinTimeCall

SpecBuilder == InitBuilder /\ [][NextBuilder]_vars

----------------------------------------------------------------------------
(* vmutil.P2ContractProgram and what becomes of an output that carries it *)

\* builder.AddOp(vm.OP_FAIL), builder.AddInt64(vmType), builder.AddData(address)
\* for an address of 20 bytes; the push of the EVM type is the instruction
\* that segwit.IsP2ContractProgram compares with vm.VM_EVM
P2ContractProgram(vmType, address) ==
    Prog(<<Inst("OP_FAIL", 0, ""), Inst(vmType, 0, ""),
           Inst("OP_DATA_20", 20, address)>>, FALSE)

\* amounts paid to a contract
ContractAmounts == {1, 5, 1000}

InitContract ==
    /\ TxIdle
    /\ support \in BOOLEAN
    /\ PoolIdle /\ MiningIdle /\ NoGoroutines
    /\ calc \in {[address |-> a, asset |-> asset, amount |-> n,
                   prog |-> EmptyProg, built |-> FALSE,
                   tx |-> <<>>, mapped |-> FALSE] :
                    a \in Addresses \ {""}, asset \in {NativeAssetID, "A"},
                    n \in ContractAmounts}

\* toProgram, err := vmutil.P2ContractProgram(a.VM, toAddress)
P2ContractProgramCall ==
    /\ ~calc.built
    /\ calc' = [calc EXCEPT !.built = TRUE,
                            !.prog = P2ContractProgram("VM_EVM", calc.address)]
    /\ UNCHANGED <<chainVars, txVars, support, poolVars, mining, blockVars>>

\* types.MapTx of a transaction that pays the amount to the program
MapContractOutput ==
    /\ calc.built /\ ~calc.mapped
    /\ calc' = [calc EXCEPT
                    !.mapped = TRUE,
                    !.tx = MapTx(TxData(1, 100, 0,
                                        <<SpendInput(calc.asset, calc.amount,
                                                     "s1", TRUE, 1000)>>,
                                        <<TxOutput(calc.asset, calc.amount,
                                                   calc.prog)>>))]
    /\ UNCHANGED <<chainVars, txVars, support, poolVars, mining, blockVars>>

NextContract == P2ContractProgramCall \/ MapContractOutput

SpecContract == InitContract /\ [][NextContract]_vars

----------------------------------------------------------------------------
(* the amounts of a mux at their full width: ValidateTx from its version    *)
(* check to the end of the two parity loops of the Mux case                 *)

\* math.MaxInt64
MaxInt64 == <<2 ^ 15 - 1, LimbBase - 1, LimbBase - 1, LimbBase - 1>>

\* int64(u) < 0: the sign bit of the two's complement reading of u
Negative(u) == u[1] >= 2 ^ 15

\* checked.AddInt64(a, b): the wrapped sum, and whether it is the sum
AddInt64(a, b) ==
    LET sum == Add64(a, b) IN
    [val |-> sum,
     ok |-> ~(Negative(a) = Negative(b) /\ Negative(sum) # Negative(a))]

\* checked.SubInt64(a, b): the wrapped difference, and whether it is the
\* difference
SubInt64(a, b) ==
    LET diff == Sub64(a, b) IN
    [val |-> diff,
     ok |-> ~(Negative(a) # Negative(b) /\ Negative(diff) # Negative(a))]

\* parity[asset], the zero value for an asset the map does not hold
ParityOf(parity, asset) ==
    IF asset \in DOMAIN parity THEN parity[asset] ELSE Uint64(0)

AmountOverMaxNever(amount) == FALSE

\* Value.Amount > math.MaxInt64
AmountOverMax(amount) == Less64(MaxInt64, amount)

\* Mux: for i, src := range e.Sources, filling the parity map
RECURSIVE MuxSourcesParity(_, _, _)
MuxSourcesParity(sources, i, parity) ==
    IF i > Len(sources) THEN [err |-> "nil", parity |-> parity]
    ELSE IF AmountOverMax(sources[i].amount)
    THEN [err |-> "ErrOverflow", parity |-> parity]
    ELSE LET sum == AddInt64(ParityOf(parity, sources[i].asset),
                             sources[i].amount)
         IN IF ~sum.ok THEN [err |-> "ErrOverflow", parity |-> parity]
            ELSE MuxSourcesParity(sources, i + 1,
                                  Put(parity, sources[i].asset, sum.val))

\* Mux: for i, dest := range e.WitnessDestinations, taking from the parity map
RECURSIVE MuxDestsParity(_, _, _)
MuxDestsParity(dests, i, parity) ==
    IF i > Len(dests) THEN [err |-> "nil", parity |-> parity]
    ELSE IF dests[i].asset \notin DOMAIN parity
    THEN [err |-> "ErrNoSource", parity |-> parity]
    ELSE IF AmountOverMax(dests[i].amount)
    THEN [err |-> "ErrOverflow", parity |-> parity]
    ELSE LET diff == SubInt64(parity[dests[i].asset], dests[i].amount)
         IN IF ~diff.ok THEN [err |-> "ErrOverflow", parity |-> parity]
            ELSE MuxDestsParity(dests, i + 1,
                                Put(parity, dests[i].asset, diff.val))

\* the two loops, one after the other
MuxParity(sources, dests) ==
    LET filled == MuxSourcesParity(sources, 1, EmptyCache) IN
    IF filled.err # "nil" THEN filled
    ELSE MuxDestsParity(dests, 1, filled.parity)

\* what ValidateTx has made of a transaction when the parity loops of its mux
\* are over: rejected, accepted without a visit to the mux (no result and a
\* version other than 1), or on its way through the rest of the Mux case
WideValidateTx(tx, blockVersion) ==
    IF blockVersion = 1 /\ tx.Version # 1
    THEN [pc |-> "rejected", err |-> "ErrTxVersion", parity |-> EmptyCache]
    ELSE IF Len(tx.dests) = 0 /\ tx.Version # 1
    THEN [pc |-> "accepted", err |-> "nil", parity |-> EmptyCache]
    ELSE LET r == MuxParity(tx.sources, tx.dests) IN
         [pc |-> IF r.err = "nil" THEN "parity" ELSE "rejected",
          err |-> r.err, parity |-> r.parity]

\* sources and destinations of a mux
MaxMuxIO == 2

\* amounts: 1, 2^63 - 1 and 2^63
WideAmounts == {Uint64(1), MaxInt64, Add64(MaxInt64, Uint64(1))}

WideValues == [asset : {NativeAssetID, "A"}, amount : WideAmounts]

\* transactions with standard programs, a size and no time range, by the
\* values of their inputs and outputs
WideTxs ==
    [Version : {1, 2}, sources : SeqsUpTo(WideValues, MaxMuxIO) \ {<<>>},
     dests : SeqsUpTo(WideValues, MaxMuxIO)]

InitWide ==
    /\ TxIdle
    /\ support = FALSE
    /\ PoolIdle /\ MiningIdle /\ NoGoroutines
    /\ calc \in {[tx |-> t, blockVersion |-> v, ran |-> FALSE,
                   out |-> [pc |-> "none", err |-> "nil",
                            parity |-> EmptyCache]] :
                    t \in WideTxs, v \in {1, 2}}

WideValidateTxCall ==
    /\ ~calc.ran
    /\ calc' = [calc EXCEPT !.ran = TRUE,
                            !.out = WideValidateTx(calc.tx, calc.blockVersion)]
    /\ UNCHANGED <<chainVars, txVars, support, poolVars, mining, blockVars>>

NextWide == WideValidateTxCall

SpecWide == InitWide /\ [][NextWide]_vars

----------------------------------------------------------------------------
(* validation.EstimateContractGas *)

\* GasState{GasValid: true, GasLeft: math.MaxInt64}, the int64 fields as
\* 64-bit words
EstimateGasState ==
    [AssetValue |-> Uint64(0), GasLeft |-> MaxInt64, GasUsed |-> Uint64(0),
     GasValid |-> TRUE, StorageGas |-> Uint64(0)]

\* GasState.updateUsage on 64-bit words
updateUsageWide(g, gasLeft) ==
    IF Negative(gasLeft) THEN [g |-> g, err |-> "ErrGasCalculate"]
    ELSE LET gasUsed == SubInt64(g.GasLeft, gasLeft) IN
         IF ~gasUsed.ok THEN [g |-> g, err |-> "ErrGasCalculate"]
         ELSE LET g2 == [g EXCEPT !.GasUsed = Add64(g.GasUsed, gasUsed.val),
                                  !.GasLeft = gasLeft]
              IN IF ~g2.GasValid
                    /\ (\/ (~Negative(g2.GasUsed)
                            /\ Less64(Uint64(DefaultGasCredit), g2.GasUsed))
                        \/ Less64(g2.GasLeft, g2.StorageGas))
                 THEN [g |-> g2, err |-> "ErrOverGasCredit"]
                 ELSE [g |-> g2, err |-> "nil"]

\* the entry carries a hybrid program of its type
HasHybridProgram(e) ==
    CASE e.typ = "deposit" -> IsOpDeposit(e.prog)
      [] e.typ = "withdrawal" -> IsOpWithdraw(e.prog2)
      [] OTHER -> FALSE

\* EstimateContractGas(e, tx, block, chain, stateDB) for a Deposit, a
\* Withdrawal or an entry of a type without hybrid program; st is a
\* validation state over stateDB with gas to run the program
EstimateContractGas(e, st) ==
    IF e.typ \notin {"deposit", "withdrawal"}
    THEN [g |-> EstimateGasState, nilState |-> TRUE, err |-> "unknown program"]
    ELSE LET run == IF e.typ = "deposit" THEN RunOpDeposit(st, e)
                    ELSE RunOpWithdraw(st, e)
             gasLeft == IF HasHybridProgram(e) /\ run.err = "nil"
                        THEN Sub64(MaxInt64, Uint64(run.gas.GasUsed))
                        ELSE Uint64(0)
         IN IF HasHybridProgram(e) /\ run.err # "nil"
            THEN [g |-> EstimateGasState, nilState |-> FALSE, err |-> run.err]
            ELSE [nilState |-> FALSE] @@ updateUsageWide(EstimateGasState, gasLeft)

\* Deposit and Withdrawal entries whose program is a plain control program
PlainEntries ==
    {[e EXCEPT !.prog = P2WSHProgram("h2")] : e \in DepositEntries}
    \cup {[e EXCEPT !.prog2 = P2WSHProgram("h2")] : e \in WithdrawalEntries}
    \cup {[e EXCEPT !.prog2 = EmptyProg] : e \in WithdrawalEntries}

\* entries of a type EstimateContractGas has no case for
OtherEntries ==
    {EntryOfType(
         MapTx(TxData(1, 100, 0,
                      <<SpendInput(NativeAssetID, amount, "s2", TRUE, 1000)>>,
                      <<>>)), "spend") : amount \in VaabAmounts}

NoEstimate == [g |-> EstimateGasState, nilState |-> TRUE, err |-> "none"]

InitEstimate ==
    /\ TxIdle
    /\ support = TRUE
    /\ PoolIdle /\ MiningIdle /\ NoGoroutines
    /\ calc \in {[entry |-> e, st |-> st, out |-> NoEstimate] :
                    e \in DepositEntries \cup WithdrawalEntries
                             \cup PlainEntries \cup OtherEntries,
                    st \in {x \in VaabStates : x.gas.GasLeft > 0}}

EstimateContractGasCall ==
    /\ calc.out = NoEstimate
    /\ calc' = [calc EXCEPT !.out = EstimateContractGas(calc.entry, calc.st)]
    /\ UNCHANGED <<chainVars, txVars, support, poolVars, mining, blockVars>>

NextEstimate == EstimateContractGasCall

SpecEstimate == InitEstimate /\ [][NextEstimate]_vars

----------------------------------------------------------------------------
(* the methods of GasState on their own *)

\* native surpluses of a mux: negative, none, below one unit of gas, some
\* gas, the most gas and more than MaxGasAmount pays for
Surpluses ==
    {-1, 0, 199, 200, 20000, 6000000, MaxGasAmount * VMGasRate,
     MaxGasAmount * VMGasRate + 200, 2000000000}

\* serialized sizes of a transaction
TxSizes == {1, 100, 250}

\* the gas states setGasValid and updateUsage are called in: what setGas
\* leaves for a size and a surplus, less what the programs run so far used
GasStates ==
    {[setGas(NewGasState, v, n).g EXCEPT !.GasLeft = @ - used,
                                         !.GasUsed = used] :
        <<v, n, used>> \in
            {x \in (Surpluses \ {-1}) \X TxSizes \X {0, 100, 29900, 30000} :
                x[3] <= x[1] \div VMGasRate /\ x[3] <= MaxGasAmount}}

\* what vm.Verify can leave of a gas limit
GasLeftOf(limit) == {n \in {0, limit - 30001, limit - 101, limit - 100, limit} :
                        n >= 0}

NoGasCall == [g |-> NewGasState, err |-> "none"]

InitGas ==
    /\ TxIdle
    /\ support = FALSE
    /\ PoolIdle /\ MiningIdle /\ NoGoroutines
    /\ calc \in
         {[op |-> "setGas", g |-> NewGasState, a |-> v, b |-> n,
           out |-> NoGasCall] : v \in Surpluses, n \in TxSizes}
         \cup {[op |-> "setGasValid", g |-> g, a |-> 0, b |-> 0,
                out |-> NoGasCall] : g \in GasStates}
         \cup UNION {{[op |-> "updateUsage",
                       g |-> [g EXCEPT !.GasValid = valid],
                       a |-> left, b |-> 0, out |-> NoGasCall] :
                         left \in GasLeftOf(g.GasLeft), valid \in BOOLEAN} :
                     g \in GasStates}

\* vs.gasStatus.setGas(amount, int64(vs.tx.SerializedSize))
SetGasCall ==
    /\ calc.op = "setGas" /\ calc.out = NoGasCall
    /\ calc' = [calc EXCEPT !.out = setGas(calc.g, calc.a, calc.b)]
    /\ UNCHANGED <<chainVars, txVars, support, poolVars, mining, blockVars>>

\* vs.gasStatus.setGasValid()
SetGasValidCall ==
    /\ calc.op = "setGasValid" /\ calc.out = NoGasCall
    /\ calc' = [calc EXCEPT !.out = setGasValid(calc.g)]
    /\ UNCHANGED <<chainVars, txVars, support, poolVars, mining, blockVars>>

\* vs.gasStatus.updateUsage(gasLeft)
UpdateUsageCall ==
    /\ calc.op = "updateUsage" /\ calc.out = NoGasCall
    /\ calc' = [calc EXCEPT !.out = updateUsage(calc.g, calc.a)]
    /\ UNCHANGED <<chainVars, txVars, support, poolVars, mining, blockVars>>

NextGas == SetGasCall \/ SetGasValidCall \/ UpdateUsageCall

SpecGas == InitGas /\ [][NextGas]_vars

----------------------------------------------------------------------------
(* account balances over a sequence of validated transactions *)

\* a native transfer of the prevout n8 of h1 that deposits 100 on h2
DepositTx ==
    TxData(1, 100, 0,
           <<SpendInput(NativeAssetID, 1000100, "n8", TRUE, 1000)>>,
           <<TxOutput(NativeAssetID, 100, DepositProgram("h2"))>>)

\* the transactions of the sequence: a withdrawal of 2,000,000 from h1, two
\* spends of prevouts of h1, one of them depositing on h2, two further
\* withdrawals from h1, and a spend with a failing witness
BalanceTxData ==
    <<WithdrawTx("h2"), SmallTx, DepositTx, DoubleWithdrawTx, UnsignedTx>>

InitBalance ==
    /\ TxIdle
    /\ support \in BOOLEAN
    /\ PoolIdle /\ MiningIdle /\ NoGoroutines
    /\ calc = [db |-> StateRootDB, applied |-> {}, last |-> 0, err |-> "nil"]

\* one transaction of a block validated on the account state the ones before
\* it left: the state is reverted when the transaction fails
ApplyTx(i) ==
    /\ i \notin calc.applied
    /\ \E tx \in {MapTx(BalanceTxData[i])} :
       \E gasOrder \in Perms(tx.GasInputIDs), nativeFirst \in BOOLEAN :
       \E vs \in {ValidateTx(tx, BestBlock, support, calc.db, gasOrder,
                             nativeFirst)} :
         calc' = [db |-> IF vs.err = "nil" THEN vs.db ELSE calc.db,
                  applied |-> calc.applied \cup {i},
                  last |-> i, err |-> vs.err]
    /\ UNCHANGED <<chainVars, txVars, support, poolVars, mining, blockVars>>

NextBalance == \E i \in 1..Len(BalanceTxData) : ApplyTx(i)

SpecBalance == InitBalance /\ [][NextBalance]_vars

----------------------------------------------------------------------------
(* block timestamps: NewBlockTemplate and checkBlockTime *)

TargetSecondsPerBlock == 13
MaxTimeOffsetSeconds == 3600
MedianTimeBlocks == 11

\* blocks on the main chain
MaxChainLen == 4

\* seconds the clock runs
MaxNow == 3

\* BlockNode.CalcPastMedianTime of the node at height n of a chain of
\* timestamps: the middle one of the sorted timestamps of the node and of up
\* to MedianTimeBlocks - 1 nodes before it
CalcPastMedianTime(chain, n) ==
    LET from == IF n > MedianTimeBlocks THEN n - MedianTimeBlocks + 1 ELSE 1
        idx == from..n
        k == Cardinality(idx) \div 2
    IN CHOOSE x \in {chain[i] : i \in idx} :
          /\ Cardinality({i \in idx : chain[i] < x}) <= k
          /\ Cardinality({i \in idx : chain[i] <= x}) > k

\* checkBlockTime(b, parent) at time t
checkBlockTime(timestamp, chain, t) ==
    IF timestamp > t + MaxTimeOffsetSeconds THEN "errBadTimestamp"
    ELSE IF timestamp <= CalcPastMedianTime(chain, Len(chain))
    THEN "errBadTimestamp"
    ELSE "nil"

\* the timestamp NewBlockTemplate gives a block on parent at time t, r being
\* rand.Uint64()
BlockTime(parentTimestamp, t, r) ==
    LET blockTime == t + (r % TargetSecondsPerBlock) IN
    IF blockTime < parentTimestamp THEN parentTimestamp ELSE blockTime

NoTemplate == [Timestamp |-> 0, built |-> FALSE, err |-> "nil"]

\* the genesis block alone, stamped before the start of the clock
InitTime ==
    /\ TxIdle
    /\ support = FALSE
    /\ PoolIdle /\ MiningIdle /\ NoGoroutines
    /\ calc = [chain |-> <<0>>, t |-> 1, tpl |-> NoTemplate]

\* the clock moves on
Tick ==
    /\ calc.t < MaxNow
    /\ calc' = [calc EXCEPT !.t = @ + 1]
    /\ UNCHANGED <<chainVars, txVars, support, poolVars, mining, blockVars>>

\* a block of another miner that passes checkBlockTime becomes the tip
PeerBlock ==
    /\ Len(calc.chain) < MaxChainLen
    /\ \E ts \in {calc.t - 1, calc.t, calc.t + 1, calc.t + TargetSecondsPerBlock,
                   calc.t + MaxTimeOffsetSeconds} :
          /\ checkBlockTime(ts, calc.chain, calc.t) = "nil"
          /\ calc' = [calc EXCEPT !.chain = Append(@, ts), !.tpl = NoTemplate]
    /\ UNCHANGED <<chainVars, txVars, support, poolVars, mining, blockVars>>

\* NewBlockTemplate on the tip; the timestamp of the template is checked as
\* ValidateBlockHeader will check it
TemplateTime ==
    /\ \E r \in 0..TargetSecondsPerBlock :
         \E ts \in {BlockTime(calc.chain[Len(calc.chain)], calc.t, r)} :
          calc' = [calc EXCEPT
                      !.tpl = [Timestamp |-> ts, built |-> TRUE,
                               err |-> checkBlockTime(ts, calc.chain, calc.t)]]
    /\ UNCHANGED <<chainVars, txVars, support, poolVars, mining, blockVars>>

\* the solved template becomes the tip
TemplateAccepted ==
    /\ Len(calc.chain) < MaxChainLen
    /\ calc.tpl.built /\ calc.tpl.err = "nil"
    /\ calc' = [calc EXCEPT !.chain = Append(@, calc.tpl.Timestamp),
                            !.tpl = NoTemplate]
    /\ UNCHANGED <<chainVars, txVars, support, poolVars, mining, blockVars>>

NextTime == Tick \/ PeerBlock \/ TemplateTime \/ TemplateAccepted

SpecTime == InitTime /\ [][NextTime]_vars

----------------------------------------------------------------------------
(* account.Manager: the account store and its two caches *)

AccountIDs == {"acc1", "acc2"}

\* the alias of each account
AliasOf == [id \in AccountIDs |-> IF id = "acc1" THEN "alice" ELSE "bob"]

\* what callers look up and delete: ids, aliases and a name of no account
AccountNames == AccountIDs \cup {AliasOf[id] : id \in AccountIDs} \cup {"nobody"}

\* a map without key k
Without(f, k) == [x \in (DOMAIN f) \ {k} |-> f[x]]

NoAccount == ""

\* Manager.FindByID(id)
FindByID(m, id) ==
    IF id \in DOMAIN m.cache
    THEN [m |-> m, account |-> m.cache[id], err |-> "nil"]
    ELSE IF id \notin DOMAIN m.accounts
    THEN [m |-> m, account |-> NoAccount, err |-> "ErrFindAccount"]
    ELSE [m |-> [m EXCEPT !.cache = Put(m.cache, id, m.accounts[id])],
          account |-> m.accounts[id], err |-> "nil"]

\* Manager.FindByAlias(alias)
FindByAlias(m, alias) ==
    IF alias \in DOMAIN m.aliasCache THEN FindByID(m, m.aliasCache[alias])
    ELSE IF alias \notin DOMAIN m.aliases
    THEN [m |-> m, account |-> NoAccount, err |-> "ErrFindAccount"]
    ELSE FindByID([m EXCEPT !.aliasCache = Put(m.aliasCache, alias,
                                               m.aliases[alias])],
                  m.aliases[alias])

\* Manager.DeleteAccount(aliasOrID)
DeleteAccount(m, aliasOrID) ==
    LET byAlias == FindByAlias(m, aliasOrID)
        found == IF byAlias.err # "nil" THEN FindByID(byAlias.m, aliasOrID)
                 ELSE byAlias
    IN IF found.err # "nil" THEN found
       ELSE [m |-> [found.m EXCEPT
                       !.aliasCache = Without(@, AliasOf[found.account]),
                       !.aliases = Without(@, AliasOf[found.account]),
                       !.accounts = Without(@, found.account)],
             account |-> found.account, err |-> "nil"]

\* the accounts created, nothing looked up yet
NewManager ==
    [accounts |-> [id \in AccountIDs |-> id],
     aliases |-> [a \in {AliasOf[id] : id \in AccountIDs} |->
                     CHOOSE id \in AccountIDs : AliasOf[id] = a],
     cache |-> [x \in {} |-> NoAccount],
     aliasCache |-> [x \in {} |-> NoAccount]]

InitAccount ==
    /\ TxIdle
    /\ support = FALSE
    /\ PoolIdle /\ MiningIdle /\ NoGoroutines
    /\ calc = [m |-> NewManager, deleted |-> {},
               last |-> [op |-> "none", name |-> "", account |-> NoAccount,
                         err |-> "nil"]]

FindByIDCall ==
    /\ \E id \in AccountNames :
         \E r \in {FindByID(calc.m, id)} :
          calc' = [calc EXCEPT
                      !.m = r.m,
                      !.last = [op |-> "FindByID", name |-> id,
                                account |-> r.account, err |-> r.err]]
    /\ UNCHANGED <<chainVars, txVars, support, poolVars, mining, blockVars>>

FindByAliasCall ==
    /\ \E alias \in AccountNames :
         \E r \in {FindByAlias(calc.m, alias)} :
          calc' = [calc EXCEPT
                      !.m = r.m,
                      !.last = [op |-> "FindByAlias", name |-> alias,
                                account |-> r.account, err |-> r.err]]
    /\ UNCHANGED <<chainVars, txVars, support, poolVars, mining, blockVars>>

DeleteAccountCall ==
    /\ \E name \in AccountNames :
         \E r \in {DeleteAccount(calc.m, name)} :
          calc' = [m |-> r.m,
                   deleted |-> IF r.err = "nil"
                               THEN calc.deleted \cup {r.account}
                               ELSE calc.deleted,
                   last |-> [op |-> "DeleteAccount", name |-> name,
                             account |-> r.account, err |-> r.err]]
    /\ UNCHANGED <<chainVars, txVars, support, poolVars, mining, blockVars>>

NextAccount == FindByIDCall \/ FindByAliasCall \/ DeleteAccountCall

SpecAccount == InitAccount /\ [][NextAccount]_vars

----------------------------------------------------------------------------
(* properties of one ValidateTx call *)

Tx == MapTx(txd)
Mux == Tx.Entries[Tx.MuxId]
Accepted == vres.done /\ vres.err = "nil"
Rejected == vres.done /\ vres.err # "nil"

MuxAssets ==
    {Mux.sources[i].asset : i \in 1..Len(Mux.sources)}
        \cup {Mux.dests[i].asset : i \in 1..Len(Mux.dests)}

MuxBalanced ==
    /\ \A a \in MuxAssets \ {NativeAssetID} : Parity(Mux, a) = 0
    /\ Parity(Mux, NativeAssetID) >= 0
    /\ Parity(Mux, NativeAssetID) = vres.gas.AssetValue

\* the header rule reaches the mux: through a result, or directly for a
\* version-1 transaction without results
MuxReached == Len(Tx.ResultIds) > 0 \/ Tx.Version = 1

\* C1 as stated: every accepted transaction has a balanced mux whose native
\* surplus is >= 0 and equals GasState.AssetValue
C1_AsStated == Accepted => MuxBalanced

\* C1: every accepted transaction whose header leads to its mux (it has a
\* result, or it is version 1) has a mux that balances for every non-native
\* asset, with a native surplus >= 0 equal to GasState.AssetValue
C1_MuxBalance == (Accepted /\ MuxReached) => MuxBalanced

\* an accepted transaction that moves asset A and pays a native fee
C1_Witness ==
    /\ Accepted /\ MuxReached
    /\ "A" \in MuxAssets
    /\ vres.gas.AssetValue > 0

\* the Coinbase entries checkValid has finished with
CheckedCoinbases ==
    {id \in DOMAIN vres.cache : Tx.Entries[id].typ = "coinbase"}

\* what the coinbase case of checkValid has to answer for entry id before it
\* looks at the destination
CoinbaseVerdict(id) ==
    IF ~blk.first THEN "ErrWrongCoinbaseTransaction"
    ELSE IF Tx.Entries[id].dests[1].asset # NativeAssetID
    THEN "ErrWrongCoinbaseAsset"
    ELSE IF Tx.Entries[id].arbLen > CoinbaseArbitrarySizeLimit
    THEN "ErrCoinbaseArbitraryOversize"
    ELSE "nil"

\* C14: a Coinbase entry passes only in the first transaction of the block,
\* with a native destination and at most CoinbaseArbitrarySizeLimit bytes of
\* arbitrary data; otherwise it fails with ErrWrongCoinbaseTransaction,
\* ErrWrongCoinbaseAsset or ErrCoinbaseArbitraryOversize, in this order; when
\* it passes, gas_valid is true
C14_CoinbaseRules ==
    \A id \in CheckedCoinbases :
        /\ CoinbaseVerdict(id) # "nil" => vres.cache[id] = CoinbaseVerdict(id)
        /\ vres.cache[id] = "nil" =>
              CoinbaseVerdict(id) = "nil" /\ vres.gas.GasValid

\* a coinbase with exactly CoinbaseArbitrarySizeLimit bytes of arbitrary data
\* passes as the first transaction of the block, the transaction is accepted
C14_Witness ==
    /\ Accepted /\ blk.first
    /\ \E id \in CheckedCoinbases :
          /\ vres.cache[id] = "nil"
          /\ Tx.Entries[id].arbLen = CoinbaseArbitrarySizeLimit
          /\ vres.gas.GasValid

RejectedOnCredit == Rejected /\ ~vres.gas.GasValid

\* the gas budget setGas derives from the native surplus
GasBudget == Min(vres.gas.AssetValue \div VMGasRate, MaxGasAmount)

\* C7 as stated: a transaction rejected while gas_valid is false has used at
\* most DefaultGasCredit plus its storage gas
C7_AsStated ==
    RejectedOnCredit =>
        vres.gas.GasUsed <= DefaultGasCredit + vres.gas.StorageGas

\* C7: a transaction rejected while gas_valid is false has used at most
\* DefaultGasCredit, unless the rejection is the over-gas-credit error raised
\* by the very run that crossed the credit; its use never exceeds the gas
\* budget min(MaxGasAmount, AssetValue / VMGasRate)
C7_GasCredit ==
    RejectedOnCredit =>
        /\ vres.err # "ErrOverGasCredit" => vres.gas.GasUsed <= DefaultGasCredit
        /\ vres.gas.GasUsed <= GasBudget

\* a rejection before gas_valid, by another error, after gas was used on credit
C7_Witness ==
    /\ RejectedOnCredit
    /\ vres.err # "ErrOverGasCredit"
    /\ vres.gas.GasUsed > 0

\* the refs an entry holds in its value sources and destinations
RefsOf(e) ==
    {e.sources[i].ref : i \in 1..Len(e.sources)}
        \cup {e.dests[i].ref : i \in 1..Len(e.dests)}

\* F, the entry vs points to, has a destination back to E = id at position p
\* with the value of vs
PointsBack(id, p, vs) ==
    /\ vs.ref \in DOMAIN Tx.Entries
    /\ LET F == Tx.Entries[vs.ref]
           k == IF F.typ = "mux" THEN vs.pos + 1 ELSE 1
       IN /\ k \in 1..Len(F.dests)
          /\ F.typ # "mux" => vs.pos = 0
          /\ F.dests[k].ref = id
          /\ F.dests[k].pos = p
          /\ F.dests[k].asset = vs.asset
          /\ F.dests[k].amount = vs.amount

Symmetric(id) ==
    LET E == Tx.Entries[id] IN
    /\ RefsOf(E) \subseteq DOMAIN Tx.Entries
    /\ \A i \in 1..Len(E.sources) : PointsBack(id, i - 1, E.sources[i])

\* C8 as stated: in an accepted transaction every entry of the map holds only
\* refs into the map and every value source is answered by a destination
C8_AsStated == Accepted => \A id \in DOMAIN Tx.Entries : Symmetric(id)

\* C8: in an accepted transaction whose header check reaches the mux, every
\* entry other than the prevout copies of spent outputs holds only refs into
\* the entry map, and each of its value sources to F at position p is
\* answered by a destination of F back to it at p with an equal value
C8_RefSymmetry ==
    (Accepted /\ MuxReached) =>
        \A id \in DOMAIN Tx.Entries \ Tx.SpentOutputIDs : Symmetric(id)

\* an accepted transaction with a spend, a result and the mux between them
C8_Witness ==
    /\ Accepted /\ MuxReached
    /\ Len(Tx.ResultIds) > 0
    /\ Tx.SpentOutputIDs # {}
    /\ Len(Mux.sources) > 1

\* the control programs checkStandardTx is about, read off the wire form
NativeGasInputProgs ==
    {txd.inputs[i].prog : i \in {j \in 1..Len(txd.inputs) :
        /\ txd.inputs[j].typ \in {"spend", "withdrawal"}
        /\ txd.inputs[j].asset = NativeAssetID}}

NativeOutputProgs ==
    {txd.outputs[i].prog : i \in {j \in 1..Len(txd.outputs) :
        txd.outputs[j].asset = NativeAssetID}}

Recognised(prog) ==
    \/ IsP2WScript(prog)
    \/ IsOpDeposit(prog) \/ IsOpWithdraw(prog)
    \/ IsUnspendable(prog)

\* C9 as stated: checkStandardTx accepts iff every native gas input program
\* and every native output program is P2W / P2WSH / P2Contract / op-deposit /
\* op-withdraw / unspendable
C9_AsStated ==
    vres.done =>
        (vres.err = "nil" <=>
            \A p \in NativeGasInputProgs \cup NativeOutputProgs : Recognised(p))

\* C9: checkStandardTx accepts iff every native gas input program is P2WSH,
\* straightforward or P2Contract, and every native output program is one of
\* those, unspendable or op-deposit
C9_Standardness ==
    vres.done =>
        (vres.err = "nil" <=>
            /\ \A p \in NativeGasInputProgs : IsP2WScript(p)
            /\ \A p \in NativeOutputProgs :
                  IsP2WScript(p) \/ IsUnspendable(p) \/ IsOpDeposit(p))

\* checkStandardTx has accepted a transaction with a native gas input and a
\* native output that is not an Output entry
C9_Witness ==
    /\ vres.done /\ vres.err = "nil"
    /\ NativeGasInputProgs # {}
    /\ \E p \in NativeOutputProgs : IsOpDeposit(p) \/ IsUnspendable(p)

----------------------------------------------------------------------------
(* properties of the pool facade *)

\* validation.ValidateTx would accept the transaction at the chain tip
StillValid(id) ==
    \A gasOrder \in Perms(KnownTxs[id].GasInputIDs), nativeFirst \in BOOLEAN :
        LET vs == ValidateTx(KnownTxs[id], BestBlock, support, StateRootDB,
                             gasOrder, nativeFirst)
        IN vs.err = "nil" /\ vs.gas.GasValid

\* C10 as stated: once RemoveTransaction has evicted a transaction, submitting
\* it again while it is still valid admits it again, whatever submissions of
\* it came before
C10_AsStated ==
    (/\ lastCall.op = "FinalizeTx"
     /\ lastCall.afterEviction
     /\ StillValid(lastCall.tx)) => lastCall.admitted

\* a step is one FinalizeTx call that reached Chain.ValidateTx with id
ChainValidateTxStep(id) ==
    /\ calls' = calls + 1
    /\ lastCall'.op = "FinalizeTx" /\ lastCall'.tx = id
    /\ lastCall'.err # "ErrExtTxFee"

\* C11 as stated: Chain.ValidateTx answers a transaction in the err cache with
\* the cached error and a transaction in the pool with ErrTransactionIsInPool,
\* in both cases not acceptable and with the pool unchanged
C11_AsStated ==
    [][\A id \in Submitted :
          ChainValidateTxStep(id) =>
             /\ IsTransactionInErrCache(errCache, id) =>
                   /\ lastCall'.err = GetErrCache(errCache, id)
                   /\ ~lastCall'.admitted /\ pool' = pool
             /\ IsTransactionInPool(pool, id) =>
                   /\ lastCall'.err = "ErrTransactionIsInPool"
                   /\ ~lastCall'.admitted /\ pool' = pool]_vars

----------------------------------------------------------------------------
(* properties of NewBlockTemplate *)

RECURSIVE SumGasUsed(_, _)
SumGasUsed(inc, n) ==
    IF n = 0 THEN 0 ELSE inc[n].gas.GasUsed + SumGasUsed(inc, n - 1)

RECURSIVE SumFees(_, _)
SumFees(inc, n) == IF n = 0 THEN 0 ELSE inc[n].fee + SumFees(inc, n - 1)

Included == {mining.included[i].tx : i \in 1..Len(mining.included)}

BlockReturned == mining.pc = "done"

\* C2: the gas used by the transactions a template includes sums to at most
\* MaxBlockGas, while it is assembled and in the block it returns
C2_BlockGas ==
    /\ SumGasUsed(mining.included, Len(mining.included)) <= MaxBlockGas
    /\ BlockReturned =>
          /\ mining.block.txs = [i \in 1..Len(mining.included) |->
                                    mining.included[i].tx]
          /\ mining.gasUsed = SumGasUsed(mining.included, Len(mining.included))

\* a block returned after the cap stopped the loop at a pool transaction
C2_Witness ==
    /\ BlockReturned
    /\ mining.step.outcome = "break"
    /\ mining.step.tx \in DOMAIN pool
    /\ Len(mining.block.txs) = 2
    /\ mining.gasUsed + mining.step.gas.GasUsed > MaxBlockGas

\* the transactions of a block, mapped
BlockTxs(b) ==
    <<MapTx(b.coinbase[1])>> \o [i \in 1..Len(b.txs) |-> KnownTxs[b.txs[i]]]

CoinbaseEntries(tx) ==
    {id \in DOMAIN tx.Entries : tx.Entries[id].typ = "coinbase"}

\* C3: a returned block has exactly one Coinbase entry, in the transaction at
\* index 0, and that transaction's single output carries the native asset and
\* BlockSubsidy(height) plus the fees of the included transactions
C3_AsStated ==
    BlockReturned =>
        LET txs == BlockTxs(mining.block)
            first == txs[1]
            out == first.Entries[first.ResultIds[1]]
        IN /\ Cardinality(CoinbaseEntries(first)) = 1
           /\ \A i \in 2..Len(txs) : CoinbaseEntries(txs[i]) = {}
           /\ Len(first.ResultIds) = 1
           /\ out.sources[1].asset = NativeAssetID
           /\ out.sources[1].amount =
                 ToInt(BlockSubsidy(Uint64(mining.block.Height)))
                 + SumFees(mining.included, Len(mining.included))

\* a pool transaction went through validation in the last iteration
Validated ==
    mining.step.outcome # "none" /\ mining.step.err # "utxo missing"

\* C4: a pool transaction whose validation ends with gas_valid false is
\* evicted from the pool, leaves the state as the snapshot had it and is not
\* included; every included transaction was validated with gas_valid true
C4_GasInvalidEvicted ==
    /\ (Validated /\ ~mining.step.gas.GasValid) =>
          /\ mining.step.tx \notin DOMAIN pool
          /\ mining.step.tx \in evicted
          /\ mining.step.after = mining.step.before
          /\ mining.step.tx \notin Included
    /\ \A i \in 1..Len(mining.included) : mining.included[i].gas.GasValid
    /\ BlockReturned => \A i \in 1..Len(mining.block.txs) :
                           mining.block.txs[i] \in Included

\* a transaction that changed the account state before it failed without
\* gas_valid, thrown out of a block that is then returned
C4_Witness ==
    /\ BlockReturned
    /\ Validated /\ ~mining.step.gas.GasValid
    /\ mining.step.touched # mining.step.before
    /\ mining.step.tx \in DOMAIN mining.snapshot
    /\ Len(mining.block.txs) > 0

\* C5: after the validation of a pool transaction returned an error with
\* gas_valid true, the account state is the snapshot taken before it; when the
\* transaction is in the block, its status is failed and its fee is part of
\* the coinbase total
C5_AsStated ==
    (Validated /\ mining.step.err # "nil" /\ mining.step.gas.GasValid) =>
        LET n == Len(mining.included) IN
        /\ mining.step.after = mining.step.before
        /\ mining.step.outcome = "included" =>
              /\ mining.included[n].tx = mining.step.tx
              /\ mining.included[n].gasOnly
              /\ mining.txFee = SumFees(mining.included, n)
              /\ mining.included[n].fee = mining.snapshot[mining.step.tx].Fee

\* the order of two transaction hashes, taken as the order of the names of the
\* transactions (byTime never looks at a hash, so any fixed order does)
HashBefore(a, b) == a < b

\* txs is in ascending Added order with equal times in ascending hash order
ByTimeThenHash(txs, descs) ==
    \A i, j \in 1..Len(txs) :
        i < j => \/ descs[txs[i]].Added < descs[txs[j]].Added
                 \/ /\ descs[txs[i]].Added = descs[txs[j]].Added
                    /\ HashBefore(txs[i], txs[j])

\* C12: the transactions NewBlockTemplate has still to consider, and the ones
\* of the block it returns, are in ascending admission-time order with equal
\* times in ascending hash order
C12_AsStated ==
    /\ mining.pc = "loop" => ByTimeThenHash(mining.queue, mining.snapshot)
    /\ BlockReturned => ByTimeThenHash(mining.block.txs, mining.snapshot)

\* the template met only valid pool transactions: none was evicted, none
\* included as a gas-only transaction, and the one the cap stopped at
\* validated without error
AllValidSoFar ==
    /\ evicted = {}
    /\ \A i \in 1..Len(mining.included) : ~mining.included[i].gasOnly
    /\ mining.step.outcome = "break" => mining.step.err = "nil"

\* the cap stopped the loop at the transaction at the head of the queue
StoppedAtHead ==
    /\ mining.step.outcome = "break"
    /\ mining.step.tx = Head(mining.queue)
    /\ mining.gasUsed + mining.step.gas.GasUsed > MaxBlockGas

\* C13: when every pool transaction the template met is valid, the block's
\* transactions after the coinbase are the longest prefix of the assembly order
\* whose gas sums to at most MaxBlockGas: they are followed in that order by
\* the transactions left out, the first of which would exceed the cap (or the
\* cap is used up), and all the pool transactions are still in the pool
C13_LongestPrefix ==
    (BlockReturned /\ AllValidSoFar) =>
        /\ mining.block.txs \o mining.queue \in SortedOrders(mining.snapshot)
        /\ SumGasUsed(mining.included, Len(mining.included)) <= MaxBlockGas
        /\ mining.queue # <<>> =>
              StoppedAtHead \/ mining.gasUsed = MaxBlockGas
        /\ pool = mining.snapshot

\* a block of two valid transactions, the cap having stopped the loop at a
\* third valid one that stays in the pool
C13_Witness ==
    /\ BlockReturned /\ AllValidSoFar
    /\ Len(mining.block.txs) = 2
    /\ StoppedAtHead
    /\ Len(mining.queue) = 1
    /\ Head(mining.queue) \in DOMAIN pool

----------------------------------------------------------------------------
(* properties of ValidateBlock *)

BlockAccepted == verdict.pc = "accepted"

\* C6: a block ValidateBlock accepts has had every transaction validated with
\* gas_valid true, its transactions use at most MaxBlockGas, and the first
\* output of its first transaction carries BlockSubsidy(height) plus the
\* AssetValue of all its transactions
C6_AsStated ==
    BlockAccepted =>
        /\ Len(verdict.gasValid) = Len(cand.Transactions)
        /\ \A i \in 1..Len(verdict.gasValid) : verdict.gasValid[i]
        /\ verdict.blockGasSum <= MaxBlockGas
        /\ checkCoinbaseAmount(
               MapBlock(cand),
               ToInt(BlockSubsidy(Uint64(cand.Height)))
               + SumSeq(verdict.assetValues, Len(verdict.assetValues)))
           = "nil"

\* C15: in a block ValidateBlock accepts, no transaction after the first has
\* a Coinbase entry
C15_AsStated ==
    BlockAccepted =>
        \A i \in 2..Len(cand.Transactions) :
            CoinbaseEntries(MapTx(cand.Transactions[i])) = {}

----------------------------------------------------------------------------
(* properties of the coinbase reward *)

\* C16: BlockSubsidy(0) is 140,700,000,750,000,000 and BlockSubsidy(h) is
\* 750,000,000 for every other height h of the uint64 range
C16_AsStated ==
    calc.subsidy # <<>> =>
        calc.subsidy = IF calc.height = Uint64(0)
                       THEN Decimal(140700000, 750000000)
                       ELSE Uint64(750000000)

\* the subsidy TestCreateCoinbaseTx expects: 41,250,000,000 halved once for
\* every 840,000 blocks
TestSubsidy(height) ==
    Shr64(Decimal(41, 250000000), Div64(height, Uint64(840000)))

SubsidyByHeight(height) ==
    IF height = Uint64(0) THEN Decimal(140700000, 750000000)
    ELSE IF height = Not64(Uint64(0)) THEN Uint64(375000000)
    ELSE Uint64(750000000)

----------------------------------------------------------------------------
(* properties of the op-deposit and op-withdraw programs *)

\* the program of the call, its address and the asset and amount it moves
VaabProgram ==
    IF calc.op = "opWithdraw" THEN calc.entry.prog2 ELSE calc.entry.prog
VaabAddress == VaabProgram.insts[3].data
VaabAsset ==
    IF calc.op = "opWithdraw" THEN calc.entry.asset
    ELSE calc.entry.sources[1].asset
VaabAmount ==
    IF calc.op = "opWithdraw" THEN calc.entry.amount
    ELSE calc.entry.sources[1].amount

\* version 0 and vmType 0, and gas for the program
VaabRunnable ==
    /\ VaabProgram.insts[1].op = "OP_0" /\ VaabProgram.insts[2].op = "OP_0"
    /\ calc.st.gas.GasLeft >= (IF calc.op = "opWithdraw" THEN calc.entry.cost2
                               ELSE calc.entry.cost)

Balance(db) == db[VaabAddress]

\* C18: an op-withdraw program for a native amount above the balance of its
\* address fails with ErrInsufficientBalance and changes no balance; one for
\* an amount within the balance succeeds and takes exactly the amount from the
\* balance of its address; an op-deposit program for a native amount succeeds
\* and adds exactly the amount to the balance of its address; with another
\* asset neither changes any balance (version 0, vmType 0 and enough gas
\* being what lets a program succeed)
C18_VaabBalances ==
    calc.ran =>
        /\ (calc.op = "opWithdraw" /\ VaabAsset = NativeAssetID
             /\ VaabRunnable /\ Balance(calc.st.db) < VaabAmount) =>
               /\ calc.out.err = "ErrInsufficientBalance"
               /\ calc.out.db = calc.st.db
        /\ (calc.op = "opWithdraw" /\ VaabAsset = NativeAssetID
             /\ VaabRunnable /\ Balance(calc.st.db) >= VaabAmount) =>
               /\ calc.out.err = "nil"
               /\ calc.out.db =
                     [calc.st.db EXCEPT ![VaabAddress] = @ - VaabAmount]
        /\ (calc.op = "opDeposit" /\ VaabAsset = NativeAssetID
             /\ VaabRunnable) =>
               /\ calc.out.err = "nil"
               /\ calc.out.db =
                     [calc.st.db EXCEPT ![VaabAddress] = @ + VaabAmount]
        /\ VaabAsset # NativeAssetID => calc.out.db = calc.st.db

\* a withdrawal of 501 refused on a balance of 500
C18_Witness ==
    /\ calc.ran /\ calc.op = "opWithdraw"
    /\ VaabAsset = NativeAssetID /\ VaabRunnable
    /\ VaabAmount = 501 /\ Balance(calc.st.db) = 500
    /\ calc.out.err = "ErrInsufficientBalance"

----------------------------------------------------------------------------
(* properties of the best node *)

IsWaiter(p) == procs[p].op = "BlockWaiter"

HeightReached(p) == bestNode.Height >= procs[p].height

\* a step that puts a value in the channel of p
Receives(p) == procs'[p].ch # procs[p].ch

\* C19: the channel of BlockWaiter(h) gets a value only while the best height
\* is at least h, it never holds more than one, and once setState has
\* promoted a node of height h or more it ends up holding one
C19_BlockWaiter ==
    /\ [][\A p \in Goroutines : Receives(p) => HeightReached(p)]_vars
    /\ [](\A p \in Goroutines : procs[p].ch <= 1)
    /\ \A p \in Goroutines :
          (IsWaiter(p) /\ HeightReached(p)) ~> (procs[p].ch = 1)

\* a waiter that found the best height too low, waited on the condition, was
\* woken by the broadcast of a setState and has its value
C19_Witness ==
    \E p \in Goroutines :
        /\ IsWaiter(p) /\ procs[p].waits > 0
        /\ procs[p].ch = 1 /\ procs[p].pc = "done"
        /\ procs[p].height = 6 /\ bestNode = BlockNode(6, "n6")

\* a step in which a reader takes what it returns
Snapshots(p) ==
    /\ procs[p].pc \in {"read", "index"}
    /\ procs'[p].pc # procs[p].pc

\* C20: whenever a reader of the best tip takes its snapshot, the index and
\* c.bestNode hold the same node: no reader sees a tip that setState has
\* promoted in one and not yet in the other
C20_AsStated ==
    [][\A p \in Goroutines : Snapshots(p) => mainChain = bestNode]_vars

----------------------------------------------------------------------------
(* properties of the template builder *)

\* C21: no call on a builder moves its maxTime later; RestrictMaxTime(t) with
\* t before the current maxTime makes t the maxTime, and any other call
\* leaves the maxTime as it was
C21_MaxTimeNarrows ==
    [][/\ calc'.b.maxTime <= calc.b.maxTime
       /\ calc'.b.maxTime =
             IF calc'.last.op = "RestrictMaxTime"
                /\ calc'.last.t < calc.b.maxTime
             THEN calc'.last.t
             ELSE calc.b.maxTime]_vars

\* a builder made with maxTime 4, narrowed to 1 and then asked for 3: its
\* maxTime is still 1
C21_Witness ==
    /\ calc.first = 4 /\ calc.n >= 2
    /\ calc.last = [op |-> "RestrictMaxTime", t |-> 3]
    /\ calc.b.maxTime = 1

----------------------------------------------------------------------------
(* properties of the pay-to-contract program *)

\* C22: the program P2ContractProgram builds for the EVM and a 20-byte
\* address is OP_0 VM_EVM <address>, IsP2ContractProgram and so IsP2WScript
\* recognise it, and an output that carries it is mapped to an Output entry
C22_AsStated ==
    /\ calc.built =>
          /\ calc.prog = ContractShapedProgram(calc.address)
          /\ IsP2ContractProgram(calc.prog)
          /\ IsP2WScript(calc.prog)
    /\ calc.mapped =>
          calc.tx.Entries[calc.tx.ResultIds[1]].typ = "output"

----------------------------------------------------------------------------
(* properties of the amounts of a mux *)

\* the sums of the sources by asset, as long as every amount is at most
\* 2^63 - 1 and every sum so far is too
RECURSIVE SourceSums(_, _, _)
SourceSums(sources, i, acc) ==
    IF i > Len(sources) THEN [fits |-> TRUE, acc |-> acc]
    ELSE LET amount == sources[i].amount
             sofar == ParityOf(acc, sources[i].asset)
         IN IF Less64(MaxInt64, amount)
               \/ Less64(Sub64(MaxInt64, sofar), amount)
            THEN [fits |-> FALSE, acc |-> acc]
            ELSE SourceSums(sources, i + 1,
                            Put(acc, sources[i].asset, Add64(sofar, amount)))

\* sum - amount for a sum given by its sign and magnitude, when it is at
\* least -2^63
Take(sum, amount) ==
    IF ~sum.neg
    THEN IF Less64(sum.mag, amount)
         THEN [fits |-> TRUE, neg |-> TRUE, mag |-> Sub64(amount, sum.mag)]
         ELSE [fits |-> TRUE, neg |-> FALSE, mag |-> Sub64(sum.mag, amount)]
    ELSE IF Less64(Sub64(Add64(MaxInt64, Uint64(1)), sum.mag), amount)
         THEN [fits |-> FALSE, neg |-> TRUE, mag |-> sum.mag]
         ELSE [fits |-> TRUE, neg |-> TRUE, mag |-> Add64(sum.mag, amount)]

\* whether every destination amount is at most 2^63 - 1 and every sum
\* stays at or above -2^63 while the destinations are taken from the sums
RECURSIVE DestSumsFit(_, _, _)
DestSumsFit(dests, i, sums) ==
    IF i > Len(dests) THEN TRUE
    ELSE LET asset == dests[i].asset
             sum == IF asset \in DOMAIN sums THEN sums[asset]
                    ELSE [neg |-> FALSE, mag |-> Uint64(0)]
             taken == Take(sum, dests[i].amount)
         IN /\ ~Less64(MaxInt64, dests[i].amount)
            /\ taken.fits
            /\ DestSumsFit(dests, i + 1,
                           Put(sums, asset,
                               [neg |-> taken.neg, mag |-> taken.mag]))

\* every amount of the mux is at most 2^63 - 1 and every running sum fits
\* an int64
WithinInt64 ==
    LET s == SourceSums(calc.tx.sources, 1, EmptyCache) IN
    /\ s.fits
    /\ DestSumsFit(calc.tx.dests, 1,
                   [a \in DOMAIN s.acc |-> [neg |-> FALSE, mag |-> s.acc[a]]])

\* ValidateTx gets as far as the mux
WideMuxVisited ==
    /\ ~(calc.blockVersion = 1 /\ calc.tx.Version # 1)
    /\ Len(calc.tx.dests) > 0 \/ calc.tx.Version = 1

\* a destination of an asset that no source brings
SourcelessDest ==
    \E i \in 1..Len(calc.tx.dests) :
        \A j \in 1..Len(calc.tx.sources) :
            calc.tx.sources[j].asset # calc.tx.dests[i].asset

\* C23 as stated: a transaction that ValidateTx does not reject has every
\* mux amount at most 2^63 - 1 and every running sum within an int64, and
\* one that breaks this is rejected with ErrOverflow
C23_AsStated ==
    calc.ran =>
        /\ calc.out.pc # "rejected" => WithinInt64
        /\ ~WithinInt64 => calc.out.err = "ErrOverflow"

\* C23: a transaction whose mux ValidateTx visits gets past the parity loops
\* only with every mux amount at most 2^63 - 1 and every running sum within
\* an int64; ErrOverflow is returned for nothing else, and a mux that breaks
\* the bound is rejected with ErrOverflow, or with ErrNoSource when it has a
\* destination of an asset that no source brings
C23_AmountBound ==
    calc.ran =>
        /\ calc.out.pc = "parity" => WithinInt64
        /\ calc.out.err = "ErrOverflow" => ~WithinInt64
        /\ (WideMuxVisited /\ ~WithinInt64) =>
              /\ calc.out.pc = "rejected"
              /\ calc.out.err \in {"ErrOverflow", "ErrNoSource"}
              /\ calc.out.err = "ErrNoSource" => SourcelessDest

\* two native sources of 2^63 - 1 and 1, each within the bound, whose sum is
\* not: rejected with ErrOverflow
C23_Witness ==
    /\ calc.ran /\ calc.tx.Version = 1
    /\ calc.tx.sources = <<[asset |-> NativeAssetID, amount |-> MaxInt64],
                           [asset |-> NativeAssetID, amount |-> Uint64(1)]>>
    /\ calc.out.pc = "rejected" /\ calc.out.err = "ErrOverflow"

----------------------------------------------------------------------------
(* properties of the state root of a block template *)

\* the step put its transaction in the block with success status
IncludedWithSuccess ==
    mining.step.outcome = "included" /\ mining.step.err = "nil"

\* C24: a pool transaction that NewBlockTemplate evicts, keeps as gas-only or
\* leaves out at the block-gas cap leaves the account state as it was before
\* it, and without account mode the state root of the block returned is the
\* account state the loop ended with
C24_AsStated ==
    /\ (Validated /\ ~IncludedWithSuccess) =>
          mining.step.after = mining.step.before
    /\ (BlockReturned /\ Validated /\ ~support) =>
          mining.block.StateRoot = mining.step.after

----------------------------------------------------------------------------
(* properties of a template handed to ValidateBlock *)

\* ValidateBlock has returned
BlockValidated == verdict.pc \in {"accepted", "rejected"}

\* C25: ValidateBlock accepts the block NewBlockTemplate returned, with the
\* status flags of the template, a coinbase amount of the subsidy plus the
\* asset values, which is the subsidy plus the pool fees of the template, a
\* gas sum within MaxBlockGas and the state root of the template
C25_AsStated ==
    BlockValidated =>
        /\ verdict.pc = "accepted"
        /\ verdict.status = mining.block.status
        /\ SumSeq(verdict.assetValues, Len(verdict.assetValues)) = mining.txFee
        /\ MapTx(cand.Transactions[1]).Entries[
               MapTx(cand.Transactions[1]).ResultIds[1]].sources[1].amount
             = ToInt(BlockSubsidy(Uint64(cand.Height))) + mining.txFee
        /\ verdict.blockGasSum <= MaxBlockGas
        /\ verdict.stateDB = mining.block.StateRoot

----------------------------------------------------------------------------
(* properties of the order of the Mux case *)

\* the positions of the log with this event
Events(ev) == {i \in 1..Len(vres.log) : vres.log[i].ev = ev}

\* the positions of the log where an input entry, the entry behind a mux
\* source, is visited and its programs are run
SourceVisits ==
    {i \in Events("visit") : Tx.Entries[vres.log[i].id].typ \in InputTypes}

\* the event has happened when the log gets to position i
Before(i, ev) == \E j \in Events(ev) : j < i

\* C26 as stated: no input entry is visited before the mux destinations have
\* been checked and, when the transaction has gas inputs, before gas_valid has
\* been set
C26_AsStated ==
    vres.done =>
        \A i \in SourceVisits :
            /\ Before(i, "dests")
            /\ Tx.GasInputIDs # {} => Before(i, "setGasValid")

\* C26: in the Mux case setGas comes before the check of the destinations
\* and setGasValid after it, only for a transaction with gas inputs; the gas
\* inputs are visited after setGas and before the check of the destinations,
\* so before gas_valid is set, and every other input entry is visited after
\* that check and, when there are gas inputs, after setGasValid
C26_MuxOrder ==
    vres.done =>
        /\ \A i \in Events("dests") : \A j \in Events("setGas") : j < i
        /\ \A i \in Events("setGasValid") :
              Before(i, "dests") /\ Tx.GasInputIDs # {}
        /\ \A i \in SourceVisits :
              IF vres.log[i].id \in Tx.GasInputIDs
              THEN /\ Before(i, "setGas")
                   /\ ~Before(i, "dests") /\ ~Before(i, "setGasValid")
              ELSE /\ Before(i, "dests")
                   /\ Tx.GasInputIDs # {} => Before(i, "setGasValid")

\* an accepted transaction with a gas input and another input: the first is
\* visited before the destinations are checked, the second after setGasValid
C26_Witness ==
    /\ Accepted
    /\ \E i, j \in SourceVisits :
          /\ vres.log[i].id \in Tx.GasInputIDs /\ ~Before(i, "dests")
          /\ vres.log[j].id \notin Tx.GasInputIDs /\ Before(j, "setGasValid")

----------------------------------------------------------------------------
(* properties of the methods of GasState *)

GasCalled(op) == calc.op = op /\ calc.out # NoGasCall

\* C27: setGasValid succeeds exactly when gas_left >= storage_gas; on
\* success gas_left goes down by storage_gas, gas_used goes up by storage_gas
\* and gas_valid becomes true; on failure gas_valid stays false
C27_SetGasValid ==
    GasCalled("setGasValid") =>
        /\ (calc.out.err = "nil") <=> (calc.g.GasLeft >= calc.g.StorageGas)
        /\ calc.out.err = "nil" =>
              /\ calc.out.g.GasLeft = calc.g.GasLeft - calc.g.StorageGas
              /\ calc.out.g.GasUsed = calc.g.GasUsed + calc.g.StorageGas
              /\ calc.out.g.GasValid
        /\ calc.out.err # "nil" =>
              /\ calc.out.err = "ErrGasCalculate"
              /\ ~calc.out.g.GasValid

\* a transaction that has already used gas on credit pays for its storage
C27_Witness ==
    /\ GasCalled("setGasValid")
    /\ calc.out.err = "nil"
    /\ calc.g.GasUsed > 0 /\ calc.g.StorageGas > 0
    /\ calc.out.g.GasLeft > 0

\* C28: updateUsage(new_gas_left) adds gas_left - new_gas_left to gas_used and
\* sets gas_left to new_gas_left; it fails with ErrOverGasCredit exactly when
\* gas_valid is false and, after the update, gas_used > DefaultGasCredit or
\* storage_gas > gas_left; with gas_valid true it never fails
C28_UpdateUsage ==
    GasCalled("updateUsage") =>
        /\ calc.out.g.GasUsed = calc.g.GasUsed + (calc.g.GasLeft - calc.a)
        /\ calc.out.g.GasLeft = calc.a
        /\ (calc.out.err = "ErrOverGasCredit") <=>
              /\ ~calc.g.GasValid
              /\ \/ calc.out.g.GasUsed > DefaultGasCredit
                 \/ calc.g.StorageGas > calc.out.g.GasLeft
        /\ calc.out.err \in {"nil", "ErrOverGasCredit"}
        /\ calc.g.GasValid => calc.out.err = "nil"

\* a program that runs the credit out although the gas left still covers the
\* storage of the transaction
C28_Witness ==
    /\ GasCalled("updateUsage")
    /\ calc.out.err = "ErrOverGasCredit"
    /\ calc.out.g.GasUsed > DefaultGasCredit
    /\ calc.g.GasUsed <= DefaultGasCredit
    /\ calc.g.StorageGas <= calc.out.g.GasLeft

\* C29: setGas(native_surplus, tx_bytes) fails with ErrGasCalculate when the
\* surplus is negative, and otherwise sets gas_left to the smaller of
\* MaxGasAmount and native_surplus div VMGasRate, storage_gas to
\* tx_bytes * StorageGasRate and asset_value to native_surplus
C29_SetGas ==
    GasCalled("setGas") =>
        IF calc.a < 0
        THEN calc.out.err = "ErrGasCalculate"
        ELSE /\ calc.out.err = "nil"
             /\ calc.out.g.GasLeft <= MaxGasAmount
             /\ calc.out.g.GasLeft <= calc.a \div VMGasRate
             /\ calc.out.g.GasLeft \in {MaxGasAmount, calc.a \div VMGasRate}
             /\ calc.out.g.StorageGas = calc.b * StorageGasRate
             /\ calc.out.g.AssetValue = calc.a

\* a surplus that pays for more gas than a transaction may use
C29_Witness ==
    /\ GasCalled("setGas")
    /\ calc.a \div VMGasRate > MaxGasAmount
    /\ calc.out.g.GasLeft = MaxGasAmount

----------------------------------------------------------------------------
(* memoization of checkValid *)

\* the gas one validation of entry id charges when it succeeds
RunCost(id) ==
    LET e == Tx.Entries[id] IN
    CASE e.typ \in {"spend", "issuance"} -> e.cost
      [] e.typ = "creation" ->
            e.cost + (IF IsOpCreate(e.prog2) THEN e.cost2 ELSE 0)
      [] e.typ = "withdrawal" ->
            e.cost + (IF IsOpWithdraw(e.prog2) THEN e.cost2 ELSE 0)
      [] e.typ = "deposit" -> IF IsOpDeposit(e.prog) THEN e.cost ELSE 0
      [] OTHER -> 0

\* what one validation of entry id adds to the balance of addr when it
\* succeeds
RunEffect(id, addr) ==
    LET e == Tx.Entries[id]
        paid(prog, src) ==
            IF support /\ src.asset = NativeAssetID
                 /\ GetHashFromStandardProg(prog).hash = addr
            THEN src.amount ELSE 0
    IN
    CASE e.typ = "output" -> paid(e.prog, e.sources[1])
      [] e.typ = "spend" ->
            0 - paid(Tx.Entries[e.spent].prog, Tx.Entries[e.spent].sources[1])
      [] e.typ = "deposit" ->
            IF IsOpDeposit(e.prog) /\ e.sources[1].asset = NativeAssetID
                 /\ e.prog.insts[3].data = addr
            THEN e.sources[1].amount ELSE 0
      [] e.typ = "withdrawal" ->
            IF IsOpWithdraw(e.prog2) /\ e.asset = NativeAssetID
                 /\ e.prog2.insts[3].data = addr
            THEN 0 - e.amount ELSE 0
      [] OTHER -> 0

\* the sum of f over the entries visited in the first i events of the log
RECURSIVE OverVisits(_, _)
OverVisits(f(_), i) ==
    IF i = 0 THEN 0
    ELSE OverVisits(f, i - 1)
         + (IF vres.log[i].ev = "visit" THEN f(vres.log[i].id) ELSE 0)

\* C30: within one ValidateTx call no entry id is validated twice; a later
\* visit is answered from the memo, which holds the result of the first; and
\* an accepted transaction has been charged the gas and has had the
\* account-state effects of one validation of each entry visited
C30_Memoized ==
    vres.done =>
        /\ \A i, j \in Events("visit") :
              vres.log[i].id = vres.log[j].id => i = j
        /\ \A i \in Events("hit") :
              \E j \in Events("visit") : j < i /\ vres.log[j].id = vres.log[i].id
        /\ \A i \in Events("visit") : vres.log[i].id \in DOMAIN vres.cache
        /\ Accepted =>
              /\ vres.gas.GasUsed =
                    OverVisits(RunCost, Len(vres.log))
                    + (IF Events("setGasValid") # {} THEN vres.gas.StorageGas
                       ELSE 0)
              /\ \A addr \in DOMAIN vres.db :
                    vres.db[addr] =
                      InitialDB[addr]
                      + OverVisits(LAMBDA id : RunEffect(id, addr), Len(vres.log))

\* a gas input that has run its program and debited its account in the loop
\* over the gas inputs is met again as a source of the mux
C30_Witness ==
    /\ Accepted /\ support
    /\ \E i \in Events("hit") :
          /\ Tx.Entries[vres.log[i].id].typ \in InputTypes
          /\ RunCost(vres.log[i].id) > 0
          /\ \E addr \in DOMAIN vres.db : RunEffect(vres.log[i].id, addr) < 0

----------------------------------------------------------------------------
(* further properties of the pool facade *)

\* C31 as stated: no transaction id is at the same time in the pool and in
\* the err cache
C31_AsStated == DOMAIN pool \cap DOMAIN errCache = {}

\* C32 as stated: FinalizeTx reports success only for a transaction handed to
\* ProcessTransaction, never for one Chain.ValidateTx judged not acceptable
C32_AsStated ==
    (lastCall.op = "FinalizeTx" /\ lastCall.err = "nil") => lastCall.admitted

\* the native fee of a transaction as the true difference of its native
\* non-coinbase inputs and its native outputs
TrueFee(t) ==
    LET ins == [i \in 1..Len(t.inputs) |->
                   IF t.inputs[i].typ # "coinbase"
                      /\ t.inputs[i].asset = NativeAssetID
                   THEN [asset |-> NativeAssetID, amount |-> t.inputs[i].amount]
                   ELSE [asset |-> "none", amount |-> 0]]
    IN SumAmounts(ins, NativeAssetID, 1) - SumAmounts(t.outputs, NativeAssetID, 1)

\* the true fee is above 25 * MaxGasAmount * VMGasRate
TrueFeeOverLimit(t) ==
    /\ TrueFee(t) > 0
    /\ \/ TrueFee(t) \div (VMGasRate * 25) > MaxGasAmount
       \/ /\ TrueFee(t) \div (VMGasRate * 25) = MaxGasAmount
          /\ TrueFee(t) % (VMGasRate * 25) > 0

\* C38 as stated: FinalizeTx answers ErrExtTxFee exactly for the transactions
\* whose true native fee is above the maximum fee
C38_AsStated ==
    lastCall.op = "FinalizeTx" =>
        (lastCall.err = "ErrExtTxFee"
            <=> TrueFeeOverLimit(KnownTxData[lastCall.tx]))

----------------------------------------------------------------------------
(* gas accounting of one ValidateTx call *)

\* C33: when ValidateTx returns with gas_valid true, gas_left is not
\* negative, gas_used covers the storage gas if it was charged, gas_left and
\* gas_used add up to the budget min(MaxGasAmount, AssetValue div VMGasRate),
\* and gas_used is at most MaxGasAmount
C33_GasConserved ==
    (vres.done /\ vres.gas.GasValid) =>
        /\ vres.gas.GasLeft >= 0
        /\ Events("setGasValid") # {} => vres.gas.GasUsed >= vres.gas.StorageGas
        /\ vres.gas.GasLeft + vres.gas.GasUsed = GasBudget
        /\ vres.gas.GasUsed <= MaxGasAmount

\* a surplus that pays for more than MaxGasAmount, with programs run before
\* and after gas_valid was set
C33_Witness ==
    /\ Accepted /\ vres.gas.GasValid
    /\ vres.gas.AssetValue \div VMGasRate > MaxGasAmount
    /\ vres.gas.GasUsed > 4000000 + vres.gas.StorageGas
    /\ vres.gas.GasLeft > 0

----------------------------------------------------------------------------
(* the checks of ValidateTx before checkValid *)

VersionFails == blk.version = 1 /\ txd.version # 1
SizeFails == txd.size = 0
TimeRangeFails == txd.timeRange # 0 /\ txd.timeRange < blk.height
StandardFails == checkStandardTx(Tx) # "nil"

\* the error of the first check that fails
EarlyError ==
    IF VersionFails THEN "ErrTxVersion"
    ELSE IF SizeFails THEN "ErrWrongTransactionSize"
    ELSE IF TimeRangeFails THEN "ErrBadTimeRange"
    ELSE IF StandardFails THEN "ErrNotStandardTx"
    ELSE "nil"

\* C35: when the version, size, time-range or standardness check fails,
\* ValidateTx returns the error of that check and has visited no entry: no
\* program has run, the account state is as it was, and the gas state has
\* gas_valid false and all counters zero; when none fails the header is
\* visited
C35_EarlyReturn ==
    vres.done =>
        IF EarlyError # "nil"
        THEN /\ vres.err = EarlyError
             /\ vres.log = <<>> /\ vres.cache = EmptyCache
             /\ vres.db = InitialDB
             /\ vres.gas = NewGasState
             /\ ~vres.gas.GasValid
             /\ vres.gas.GasLeft = 0 /\ vres.gas.GasUsed = 0
             /\ vres.gas.StorageGas = 0 /\ vres.gas.AssetValue = 0
        ELSE vres.log # <<>> /\ vres.log[1] = [ev |-> "visit", id |-> Tx.ID]

\* a transaction that validation would accept, with effects on the account
\* state, turned down for its time range
C35_Witness ==
    /\ vres.done /\ vres.err = "ErrBadTimeRange"
    /\ support
    /\ Len(txd.inputs) > 0 /\ Len(txd.outputs) > 0
    /\ ~StandardFails
    /\ \A gasOrder \in Perms(Tx.GasInputIDs) :
          LET r == ValidateTx(MapTx([txd EXCEPT !.timeRange = 0]), blk, support,
                              InitialDB, gasOrder, FALSE)
          IN r.err = "nil" /\ r.db # InitialDB /\ r.gas.GasValid

----------------------------------------------------------------------------
(* account balances *)

\* C36 as stated: after any sequence of validated transactions, with
\* SupportBalanceInStateDB on or off, no account has a negative native balance
C36_AsStated ==
    ("db" \in DOMAIN calc /\ calc.err = "nil") =>
        \A a \in DOMAIN calc.db : calc.db[a] >= 0

----------------------------------------------------------------------------
(* block timestamps *)

\* C37 as stated: the timestamp of a template is the larger of the parent's
\* timestamp and now + r with 0 <= r < TargetSecondsPerBlock, and it passes
\* checkBlockTime against the parent: it is above the parent's past-median
\* time and at most now + MaxTimeOffsetSeconds
C37_AsStated ==
    ("tpl" \in DOMAIN calc /\ calc.tpl.built) =>
        /\ \E r \in 0..(TargetSecondsPerBlock - 1) :
              calc.tpl.Timestamp =
                  IF calc.chain[Len(calc.chain)] > calc.t + r
                  THEN calc.chain[Len(calc.chain)] ELSE calc.t + r
        /\ calc.tpl.Timestamp > CalcPastMedianTime(calc.chain, Len(calc.chain))
        /\ calc.tpl.Timestamp <= calc.t + MaxTimeOffsetSeconds
        /\ calc.tpl.err = "nil"

----------------------------------------------------------------------------
(* gas estimates *)

\* C39 as stated: the gas state EstimateContractGas returns has as gas_used
\* the gas the hybrid program of the entry consumed, and 0 when the entry
\* carries no hybrid program
C39_AsStated ==
    (/\ "entry" \in DOMAIN calc /\ "nilState" \in DOMAIN calc.out
     /\ calc.out.err = "nil") =>
        calc.out.g.GasUsed =
            IF HasHybridProgram(calc.entry)
            THEN Uint64(IF calc.entry.typ = "deposit" THEN calc.entry.cost
                        ELSE calc.entry.cost2)
            ELSE Uint64(0)

----------------------------------------------------------------------------
(* deleted accounts *)

\* C40 as stated: once DeleteAccount has returned without error, FindByID
\* with the id and FindByAlias with the alias of the deleted account return
\* ErrFindAccount
C40_AsStated ==
    "deleted" \in DOMAIN calc =>
        \A id \in calc.deleted :
            /\ (calc.last.op = "FindByID" /\ calc.last.name = id)
                  => calc.last.err = "ErrFindAccount"
            /\ (calc.last.op = "FindByAlias" /\ calc.last.name = AliasOf[id])
                  => calc.last.err = "ErrFindAccount"

====
